---------------------------- MODULE Spec2Model ----------------------------
(***************************************************************************)
(* Verification model of the Zoocari inference pipeline (rodrigjm/zoogpt,  *)
(* apps/api): the Safety Gate (services/safety.py), the local-first /      *)
(* cloud-fallback provider services (services/stt.py, llm.py, tts.py,      *)
(* rag.py) and the request handlers (routers/chat.py, routers/voice.py).   *)
(*                                                                         *)
(* These specifications share the module:                                  *)
(*   SpecGate      validate_input / validate_output as pure functions of   *)
(*                 a bounded text and of the moderation backends' answers  *)
(*   SpecDispatch  STTService.transcribe, LLMService.generate,             *)
(*                 TTSService.synthesize over the process-wide caches      *)
(*   Spec          the handlers POST /chat, POST /chat/stream and          *)
(*                 POST /voice/tts/stream, one request at a time           *)
(*   SpecSentences extract_sentences fed a text in chunks                  *)
(*   SpecFollowups extract_followup_questions over the fallback rotation   *)
(*   SpecRotation  get_fallback_questions called by concurrent requests    *)
(*   SpecRetrieval search_context over the image enrichment data           *)
(*   SpecEndpoints Spec with POST /voice/stt                               *)
(*   SpecTimer     chat and text_to_speech with and without RequestTimer   *)
(*   SpecPrompt    the messages a generation call sends to the provider    *)
(*   SpecTopic     check_on_topic over texts spelled out in characters     *)
(*   SpecConfig    DynamicConfig over a file that is rewritten             *)
(***************************************************************************)
EXTENDS Integers, Sequences, FiniteSets, TLC

VARIABLES
    gate_text,      \* SpecGate: the text handed to the gate
    gate_out,       \* SpecGate: what the last gate call did and returned
    llm_provider,           \* settings.llm_provider
    kokoro_pipeline,        \* tts.py  _kokoro_pipeline
    kokoro_pipeline_error,  \* tts.py  _kokoro_pipeline_error
    stt_model,              \* stt.py  _stt_model
    stt_model_error,        \* stt.py  _stt_model_error
    ollama_available,       \* llm.py  _ollama_available
    svc_last,       \* SpecDispatch: the last service call, what it did and returned
    svc_hist,       \* SpecDispatch: per capability, what the calls so far did
    svc_calls,      \* SpecDispatch: number of service calls made
    fallback_question_index,  \* rag.py  _fallback_question_index
    req,            \* Spec: the request being handled
    pc,             \* Spec: where its handler stands
    input_check,    \* Spec: what validate_input returned for it
    req_calls,      \* Spec: the collaborator and provider calls it made, in order
    response,       \* Spec: the HTTP response returned for it
    events,         \* Spec: the server-sent events emitted for it, in order
    gen,            \* Spec: the generation stream it reads
    reply,          \* Spec: chat: reply / streams: full_response
    buffer,         \* Spec: tts_stream: buffer
    pending,        \* Spec: tts_stream: sentences extracted and not yet synthesized
    sentence_index, \* Spec: tts_stream: sentence_index
    skip_tts,       \* Spec: tts_stream: skip_tts
    saved,          \* Spec: the entries it appended to the session store
    submitted,      \* Spec: tts_stream: the synthesis calls made, with their outcome
    transcript,     \* SpecEndpoints: speech_to_text: what transcribe did and returned
    feed_text,      \* SpecSentences: the text that is fed in chunks
    feed_left,      \* SpecSentences: the part of it not fed yet
    feed_buffer,    \* SpecSentences: the remainder kept between calls
    feed_sentences, \* SpecSentences: the sentences returned so far
    fu_response,    \* SpecFollowups: the response given to the last call
    fu_out,         \* SpecFollowups: what the last call returned
    fu_prev,        \* SpecFollowups: the fallback questions of the call before
    rot_tasks,      \* SpecRotation: per request task, where its call stands
    rot_running,    \* SpecRotation: the task the event loop is running
    rot_done,       \* SpecRotation: number of calls that have returned
    sc_file,        \* SpecRetrieval: what animal_images.json holds
    sc_images,      \* SpecRetrieval: RAGService._animal_images
    sc_rows,        \* SpecRetrieval: the rows the last search returned
    sc_out,         \* SpecRetrieval: what the last search_context call returned
    tm_in,          \* SpecTimer: the request and what its collaborators will do
    tm_timed,       \* SpecTimer: what the handler does for it
    tm_plain,       \* SpecTimer: what the handler does without its RequestTimer
    pr_in,          \* SpecPrompt: the turn, the stored turns, the template, the context
    pr_out,         \* SpecPrompt: what the generation call was given and sent
    cfg,            \* SpecConfig: the DynamicConfig object
    cfg_file,       \* SpecConfig: admin_config.json, its content and mtime
    cfg_now         \* SpecConfig: time.time()

gateVars == <<gate_text, gate_out>>
cacheVars == <<kokoro_pipeline, kokoro_pipeline_error, stt_model, stt_model_error,
               ollama_available>>
svcVars == <<svc_last, svc_hist, svc_calls>>
reqVars == <<req, pc, input_check, req_calls, response, events, gen, reply, buffer,
             pending, sentence_index, skip_tts, saved, submitted, transcript>>

None == "None"

InSeq(x, seq) == \E i \in DOMAIN seq : seq[i] = x

(***************************************************************************)
(* Bounds.                                                                 *)
(***************************************************************************)
\* Longest text of SpecGate, in vocabulary items.
MaxWords == 4
\* Service calls made in one behaviour of SpecDispatch.
MaxCalls == 3

(***************************************************************************)
(* Texts.  A text is a sequence of vocabulary items joined by single       *)
(* blanks.  Every item is a literal string; what each regular expression   *)
(* and keyword test of safety.py answers on it is tabulated below.         *)
(***************************************************************************)
X10 == "xxxxxxxxxx"
X100 == X10 \o X10 \o X10 \o X10 \o X10 \o X10 \o X10 \o X10 \o X10 \o X10
\* A run of 494 letters x: with " lions" appended the text has exactly
\* MAX_INPUT_LENGTH characters, with any longer item it exceeds the budget.
LongWord == X100 \o X100 \o X100 \o X100 \o X10 \o X10 \o X10 \o X10 \o X10
            \o X10 \o X10 \o X10 \o X10 \o "xxxx"

Vocabulary ==
    { "lions", "taxes", "jailbreak", "a@b.com", "555-123-4567",
      "123-45-6789", "12 main street", LongWord }

\* Whitespace-separated tokens of one item (str.split()).
Tokens(w) == IF w = "12 main street" THEN 3 ELSE 1

RECURSIVE TextLen(_)
\* len(text) of the joined text.
TextLen(text) ==
    IF text = <<>> THEN 0
    ELSE Len(Head(text)) + (IF Len(text) > 1 THEN 1 ELSE 0) + TextLen(Tail(text))

RECURSIVE TokenCount(_)
\* len(text.split())
TokenCount(text) ==
    IF text = <<>> THEN 0 ELSE Tokens(Head(text)) + TokenCount(Tail(text))

Texts == UNION { [1..n -> Vocabulary] : n \in 0..MaxWords }

(***************************************************************************)
(* services/safety.py                                                      *)
(***************************************************************************)
MAX_INPUT_LENGTH == 500

\* PII_PATTERNS, in the dict's insertion order, with the items each
\* pattern matches (re.search, IGNORECASE).
PII_TYPES == <<"email", "phone", "ssn", "address">>

PII_PATTERNS(pii_type) ==
    CASE pii_type = "email" -> {"a@b.com"}
      [] pii_type = "phone" -> {"555-123-4567"}
      [] pii_type = "ssn" -> {"123-45-6789"}
      [] pii_type = "address" -> {"12 main street"}

\* Items on which some INJECTION_PATTERNS entry matches the lower-cased text.
INJECTION_PATTERNS == {"jailbreak"}

\* Items that contain a ZOO_KEYWORDS entry as a substring ("lion").
ZOO_KEYWORDS == {"lions"}

Words(text) == { text[i] : i \in DOMAIN text }

\* not text or not text.strip(): nothing but whitespace.
IsBlank(text) == \A i \in DOMAIN text : text[i] = " "

SafetyResult(is_safe, reason, categories) ==
    [is_safe |-> is_safe, reason |-> reason, categories |-> categories]

ReasonTooLong == "Message too long - please keep it under 500 characters"
ReasonInjection == "I didn't understand that. Can you ask about animals instead?"
ReasonPII == "Personal information detected - please don't share personal details"
ReasonOffTopic == "I love talking about animals! Ask me about the animals at Leesburg Animal Park!"
ReasonFlagged == "Content flagged by safety filter"

\* What a check hands back: its SafetyResult, the backends it called and
\* the log records it wrote.
Checked(result, calls, log) ==
    [raised |-> FALSE, result |-> result, calls |-> calls, log |-> log]

\* A check that raised instead of returning.
Raised(calls, log) ==
    [raised |-> TRUE, result |-> SafetyResult(FALSE, "exception", <<>>),
     calls |-> calls, log |-> log]

\* Answers of the cloud moderation API for one call.
ModerationAnswers == {"pass", "flag", "raise"}
\* Answers of the local LlamaGuard model for one call.
GuardAnswers == {"safe", "unsafe", "raise"}
\* settings.llm_provider; "unset" is a Settings object without the field
\* (reading it raises AttributeError).
Providers == {"ollama", "openai", "unset"}

\* Mutant: an API error is treated as a flag (fail closed).
check_content_moderation_FailClosed(text, mod) ==
    IF IsBlank(text) THEN Checked(SafetyResult(TRUE, None, <<>>), <<>>, <<>>)
    ELSE CASE mod = "pass" ->
                Checked(SafetyResult(TRUE, None, <<>>), <<"openai_moderation">>, <<>>)
           [] OTHER ->
                Checked(SafetyResult(FALSE, ReasonFlagged, <<"violence">>),
                        <<"openai_moderation">>,
                        <<"warning: Content flagged by moderation">>)

check_content_moderation(text, mod) ==
    IF IsBlank(text) THEN Checked(SafetyResult(TRUE, None, <<>>), <<>>, <<>>)
    ELSE CASE mod = "flag" ->
                Checked(SafetyResult(FALSE, ReasonFlagged, <<"violence">>),
                        <<"openai_moderation">>,
                        <<"warning: Content flagged by moderation">>)
           [] mod = "pass" ->
                Checked(SafetyResult(TRUE, None, <<>>), <<"openai_moderation">>, <<>>)
           [] mod = "raise" ->
                Checked(SafetyResult(TRUE, None, <<>>), <<"openai_moderation">>,
                        <<"error: Moderation API error">>)

RECURSIVE FoundPII(_, _)
\* found_pii of check_pii: the types from position i on whose pattern matches.
FoundPII(text, i) ==
    IF i > Len(PII_TYPES) THEN <<>>
    ELSE (IF Words(text) \cap PII_PATTERNS(PII_TYPES[i]) # {}
          THEN <<PII_TYPES[i]>> ELSE <<>>) \o FoundPII(text, i + 1)

check_pii(text) ==
    LET found_pii == FoundPII(text, 1) IN
    IF found_pii # <<>>
    THEN Checked(SafetyResult(FALSE, ReasonPII, found_pii), <<>>,
                 <<"warning: PII detected in input">>)
    ELSE Checked(SafetyResult(TRUE, None, <<>>), <<>>, <<>>)

check_prompt_injection(text) ==
    IF Words(text) \cap INJECTION_PATTERNS # {}
    THEN Checked(SafetyResult(FALSE, ReasonInjection, <<"prompt_injection">>), <<>>,
                 <<"warning: Prompt injection detected">>)
    ELSE Checked(SafetyResult(TRUE, None, <<>>), <<>>, <<>>)

check_on_topic(text) ==
    IF TokenCount(text) <= 3 THEN Checked(SafetyResult(TRUE, None, <<>>), <<>>, <<>>)
    ELSE IF Words(text) \cap ZOO_KEYWORDS # {}
         THEN Checked(SafetyResult(TRUE, None, <<>>), <<>>, <<>>)
         ELSE Checked(SafetyResult(FALSE, ReasonOffTopic, <<"off_topic">>), <<>>, <<>>)

\* Logs and re-raises when the call fails.
check_content_llamaguard(text, guard) ==
    CASE guard = "safe" -> Checked(SafetyResult(TRUE, None, <<>>), <<"llamaguard">>, <<>>)
      [] guard = "unsafe" ->
           Checked(SafetyResult(FALSE, ReasonFlagged, <<"llamaguard">>), <<"llamaguard">>, <<>>)
      [] guard = "raise" ->
           Raised(<<"llamaguard">>, <<"warning: LlamaGuard failed">>)

\* One record of the gate's run: the SafetyResult, the checks evaluated in
\* order, the moderation backends called in order, the log records.
GateRun(result, evaluated, calls, log) ==
    [result |-> result, evaluated |-> evaluated, calls |-> calls, log |-> log]

\* Stage 5 of validate_input, reached with the log of stages 1-4.
ModerationStage(text, provider, guard, mod, evaluated) ==
    LET g == IF provider = "ollama"
             THEN check_content_llamaguard(text, guard)
             ELSE Raised(<<>>, <<>>)
        m == check_content_moderation(text, mod)
    IN  IF ~g.raised
        THEN GateRun(g.result, evaluated \o <<"moderation">>, g.calls, g.log)
        ELSE GateRun(m.result, evaluated \o <<"moderation">>, g.calls \o m.calls,
                     g.log \o m.log)

\* Mutant: the moderation backends are consulted before the local checks.
validate_input_ModerationFirst(text, provider, guard, mod) ==
    LET injection_result == check_prompt_injection(text)
        pii_result == check_pii(text)
        topic_result == check_on_topic(text)
        stage5 == ModerationStage(text, provider, guard, mod,
                                  <<"length", "injection", "pii", "topic">>)
    IN  IF TextLen(text) > MAX_INPUT_LENGTH
        THEN GateRun(SafetyResult(FALSE, ReasonTooLong, <<>>), <<"length">>,
                     stage5.calls, <<>>)
        ELSE IF ~injection_result.result.is_safe
        THEN GateRun(injection_result.result, <<"length", "injection">>, stage5.calls,
                     injection_result.log)
        ELSE IF ~pii_result.result.is_safe
        THEN GateRun(pii_result.result, <<"length", "injection", "pii">>, stage5.calls,
                     pii_result.log)
        ELSE IF ~topic_result.result.is_safe
        THEN GateRun(topic_result.result, <<"length", "injection", "pii", "topic">>,
                     stage5.calls, <<>>)
        ELSE stage5

\* Mutant: the length check runs after the injection check.
validate_input_LengthSecond(text, provider, guard, mod) ==
    LET injection_result == check_prompt_injection(text)
        pii_result == check_pii(text)
        topic_result == check_on_topic(text)
    IN  IF ~injection_result.result.is_safe
        THEN GateRun(injection_result.result, <<"injection">>, <<>>,
                     injection_result.log)
        ELSE IF TextLen(text) > MAX_INPUT_LENGTH
        THEN GateRun(SafetyResult(FALSE, ReasonTooLong, <<>>),
                     <<"injection", "length">>, <<>>, <<>>)
        ELSE IF ~pii_result.result.is_safe
        THEN GateRun(pii_result.result, <<"length", "injection", "pii">>, <<>>,
                     pii_result.log)
        ELSE IF ~topic_result.result.is_safe
        THEN GateRun(topic_result.result, <<"length", "injection", "pii", "topic">>,
                     <<>>, <<>>)
        ELSE ModerationStage(text, provider, guard, mod,
                             <<"length", "injection", "pii", "topic">>)

\* Mutant: the topic check runs before the PII check.
validate_input_TopicBeforePII(text, provider, guard, mod) ==
    LET injection_result == check_prompt_injection(text)
        pii_result == check_pii(text)
        topic_result == check_on_topic(text)
    IN  IF TextLen(text) > MAX_INPUT_LENGTH
        THEN GateRun(SafetyResult(FALSE, ReasonTooLong, <<>>), <<"length">>, <<>>, <<>>)
        ELSE IF ~injection_result.result.is_safe
        THEN GateRun(injection_result.result, <<"length", "injection">>, <<>>,
                     injection_result.log)
        ELSE IF ~topic_result.result.is_safe
        THEN GateRun(topic_result.result, <<"length", "injection", "topic">>,
                     <<>>, <<>>)
        ELSE IF ~pii_result.result.is_safe
        THEN GateRun(pii_result.result, <<"length", "injection", "topic", "pii">>, <<>>,
                     pii_result.log)
        ELSE ModerationStage(text, provider, guard, mod,
                             <<"length", "injection", "topic", "pii">>)

validate_input(text, provider, guard, mod) ==
    LET injection_result == check_prompt_injection(text)
        pii_result == check_pii(text)
        topic_result == check_on_topic(text)
    IN  IF TextLen(text) > MAX_INPUT_LENGTH
        THEN GateRun(SafetyResult(FALSE, ReasonTooLong, <<>>), <<"length">>, <<>>, <<>>)
        ELSE IF ~injection_result.result.is_safe
        THEN GateRun(injection_result.result, <<"length", "injection">>, <<>>,
                     injection_result.log)
        ELSE IF ~pii_result.result.is_safe
        THEN GateRun(pii_result.result, <<"length", "injection", "pii">>, <<>>,
                     pii_result.log)
        ELSE IF ~topic_result.result.is_safe
        THEN GateRun(topic_result.result, <<"length", "injection", "pii", "topic">>,
                     <<>>, <<>>)
        ELSE ModerationStage(text, provider, guard, mod,
                             <<"length", "injection", "pii", "topic">>)

\* Mutant: the output goes through the input checks.
validate_output_AsInput(text, mod) == validate_input(text, "openai", "safe", mod)

validate_output(text, mod) ==
    LET m == check_content_moderation(text, mod)
    IN  GateRun(m.result, <<"moderation">>, m.calls, m.log)


(***************************************************************************)
(* Provider services: services/tts.py, services/stt.py, services/llm.py.   *)
(* Every operator gets the cached state it reads and what the providers    *)
(* would answer if called, and returns the new cached state, the value it  *)
(* returns (ret, "raise" for an exception that leaves it), the provider    *)
(* operations it performed in order (trace) and the log records written.   *)
(***************************************************************************)
\* What constructing the local model does when attempted: it succeeds, or
\* raises an exception e whose str(e) is a message, or one whose str(e) is
\* the empty string (AssertionError(), RuntimeError(), OSError()).
InitOutcomes == {"ok", "fail", "fail_empty"}
\* What one execution of a provider does.
ExecOutcomes == {"ok", "raise"}
\* What GET /api/tags of Ollama does: status 200, another status, exception.
HealthOutcomes == {"up", "down", "raise"}
\* Audio inputs: bytes of a recognised container format, or unrecognised.
AudioFormats == {"wav", "unknown"}

\* str(e) of a failed construction.
StrOfException(init) == IF init = "fail_empty" THEN "" ELSE "init failed"

\* Python truthiness of an Optional[str].
Truthy(str) == str # None /\ str # ""

get_kokoro_pipeline(pipeline, error, init) ==
    IF Truthy(error)
    THEN [pipeline |-> pipeline, error |-> error, ret |-> None,
          trace |-> <<>>, log |-> <<>>]
    ELSE IF pipeline = None
    THEN IF init = "ok"
         THEN [pipeline |-> "KPipeline", error |-> error, ret |-> "KPipeline",
               trace |-> <<"init_kokoro">>, log |-> <<>>]
         ELSE [pipeline |-> None, error |-> StrOfException(init), ret |-> None,
               trace |-> <<"init_kokoro">>,
               log |-> <<"warning: [KOKORO] Pipeline initialization failed">>]
    ELSE [pipeline |-> pipeline, error |-> error, ret |-> pipeline,
          trace |-> <<>>, log |-> <<>>]

get_stt_model(model, error, init) ==
    IF Truthy(error)
    THEN [model |-> model, error |-> error, ret |-> None, trace |-> <<>>, log |-> <<>>]
    ELSE IF model = None
    THEN IF init = "ok"
         THEN [model |-> "WhisperModel", error |-> error, ret |-> "WhisperModel",
               trace |-> <<"init_whisper">>, log |-> <<>>]
         ELSE [model |-> None, error |-> StrOfException(init), ret |-> None,
               trace |-> <<"init_whisper">>,
               log |-> <<"warning: [STT] Faster-Whisper initialization failed">>]
    ELSE [model |-> model, error |-> error, ret |-> model, trace |-> <<>>, log |-> <<>>]

\* TTSService.synthesize_kokoro: RuntimeError without a pipeline, else one
\* run of the pipeline.
synthesize_kokoro(pipeline, error, init, local) ==
    LET got == get_kokoro_pipeline(pipeline, error, init) IN
    IF got.ret = None
    THEN [pipeline |-> got.pipeline, error |-> got.error, ret |-> "raise",
          trace |-> got.trace, log |-> got.log]
    ELSE [pipeline |-> got.pipeline, error |-> got.error,
          ret |-> IF local = "ok" THEN "kokoro_audio" ELSE "raise",
          trace |-> got.trace \o <<"kokoro">>, log |-> got.log]

\* TTSService.synthesize_openai.
synthesize_openai(cloud) ==
    [ret |-> IF cloud = "ok" THEN "openai_audio" ELSE "raise", trace |-> <<"openai_tts">>]

\* Mutant: the exception of the local attempt leaves synthesize.
TTSService_synthesize_Reraise(pipeline, error, init, local, cloud) ==
    LET avail == get_kokoro_pipeline(pipeline, error, init)
        k == synthesize_kokoro(avail.pipeline, avail.error, init, local)
        c == synthesize_openai(cloud)
    IN  IF avail.ret # None
        THEN [pipeline |-> k.pipeline, error |-> k.error, ret |-> k.ret,
              trace |-> avail.trace \o k.trace, log |-> avail.log \o k.log]
        ELSE [pipeline |-> avail.pipeline, error |-> avail.error, ret |-> c.ret,
              trace |-> avail.trace \o c.trace,
              log |-> avail.log \o (IF c.ret = "raise"
                                    THEN <<"error: [TTS] All TTS methods failed">>
                                    ELSE <<>>)]

TTSService_synthesize(pipeline, error, init, local, cloud) ==
    LET avail == get_kokoro_pipeline(pipeline, error, init)
        k == synthesize_kokoro(avail.pipeline, avail.error, init, local)
        c == synthesize_openai(cloud)
        cloudLog == IF c.ret = "raise"
                    THEN <<"error: [TTS] All TTS methods failed">> ELSE <<>>
    IN  IF avail.ret # None
        THEN IF k.ret # "raise"
             THEN [pipeline |-> k.pipeline, error |-> k.error, ret |-> k.ret,
                   trace |-> avail.trace \o k.trace, log |-> avail.log \o k.log]
             ELSE [pipeline |-> k.pipeline, error |-> k.error, ret |-> c.ret,
                   trace |-> avail.trace \o k.trace \o c.trace,
                   log |-> avail.log \o k.log \o <<"warning: [TTS] Kokoro failed">>
                           \o cloudLog]
        ELSE [pipeline |-> avail.pipeline, error |-> avail.error, ret |-> c.ret,
              trace |-> avail.trace \o c.trace, log |-> avail.log \o cloudLog]

\* STTService.transcribe_local.
transcribe_local(model, error, init, local) ==
    LET got == get_stt_model(model, error, init) IN
    IF got.ret = None
    THEN [model |-> got.model, error |-> got.error, ret |-> "raise",
          trace |-> got.trace, log |-> got.log]
    ELSE [model |-> got.model, error |-> got.error,
          ret |-> IF local = "ok" THEN "whisper_text" ELSE "raise",
          trace |-> got.trace \o <<"whisper">>, log |-> got.log]

\* Mutant: the cloud API is called whatever the bytes are.
transcribe_openai_AlwaysCalls(audio, cloud) ==
    [ret |-> IF cloud = "ok" THEN "openai_text" ELSE "raise",
     trace |-> <<"openai_whisper">>, log |-> <<>>]

\* STTService.transcribe_openai: bytes of no recognised format get the fixed
\* mock text and the API is not called.
transcribe_openai(audio, cloud) ==
    IF audio = "unknown"
    THEN [ret |-> "mock_text", trace |-> <<>>,
          log |-> <<"warning: [STT] Invalid audio format detected">>]
    ELSE [ret |-> IF cloud = "ok" THEN "openai_text" ELSE "raise",
          trace |-> <<"openai_whisper">>, log |-> <<>>]

\* Mutant: a failed local run is tried once more before the cloud API.
STTService_transcribe_Retries(model, error, audio, init, local, cloud) ==
    LET avail == get_stt_model(model, error, init)
        l == transcribe_local(avail.model, avail.error, init, local)
        c == transcribe_openai(audio, cloud)
    IN  IF avail.ret # None
        THEN IF l.ret # "raise"
             THEN [model |-> l.model, error |-> l.error, ret |-> l.ret,
                   trace |-> avail.trace \o l.trace, log |-> avail.log \o l.log]
             ELSE [model |-> l.model, error |-> l.error, ret |-> c.ret,
                   trace |-> avail.trace \o l.trace \o l.trace \o c.trace,
                   log |-> avail.log \o l.log \o c.log]
        ELSE [model |-> avail.model, error |-> avail.error, ret |-> c.ret,
              trace |-> avail.trace \o c.trace, log |-> avail.log \o c.log]

STTService_transcribe(model, error, audio, init, local, cloud) ==
    LET avail == get_stt_model(model, error, init)
        l == transcribe_local(avail.model, avail.error, init, local)
        c == transcribe_openai(audio, cloud)
        cloudLog == c.log \o (IF c.ret = "raise"
                              THEN <<"error: [STT] All transcription methods failed">>
                              ELSE <<>>)
    IN  IF avail.ret # None
        THEN IF l.ret # "raise"
             THEN [model |-> l.model, error |-> l.error, ret |-> l.ret,
                   trace |-> avail.trace \o l.trace, log |-> avail.log \o l.log]
             ELSE [model |-> l.model, error |-> l.error, ret |-> c.ret,
                   trace |-> avail.trace \o l.trace \o c.trace,
                   log |-> avail.log \o l.log
                           \o <<"warning: [STT] Faster-Whisper failed">> \o cloudLog]
        ELSE [model |-> avail.model, error |-> avail.error, ret |-> c.ret,
              trace |-> avail.trace \o c.trace, log |-> avail.log \o cloudLog]

\* check_ollama_health: probes and stores the answer.
check_ollama_health(health) ==
    [available |-> IF health = "up" THEN "True" ELSE "False",
     trace |-> <<"ollama_health">>,
     log |-> IF health = "raise" THEN <<"warning: Ollama health check failed">>
             ELSE <<>>]

\* is_ollama_available: the cached answer, probing when there is none.
is_ollama_available(available, health) ==
    IF available = None
    THEN LET h == check_ollama_health(health)
         IN  [available |-> h.available, ret |-> h.available = "True",
              trace |-> h.trace, log |-> h.log]
    ELSE [available |-> available, ret |-> available = "True",
          trace |-> <<>>, log |-> <<>>]

\* LLMService.generate, on an instance that could be constructed
\* (provider # "unset").
LLMService_generate(provider, available, health, local, cloud) ==
    LET avail == IF provider = "ollama"
                 THEN is_ollama_available(available, health)
                 ELSE [available |-> available, ret |-> FALSE, trace |-> <<>>,
                       log |-> <<>>]
        c == [ret |-> IF cloud = "ok" THEN "openai_reply" ELSE "raise",
              trace |-> <<"openai_chat">>]
    IN  IF avail.ret
        THEN IF local = "ok"
             THEN [available |-> avail.available, ret |-> "ollama_reply",
                   trace |-> avail.trace \o <<"ollama">>, log |-> avail.log]
             ELSE [available |-> avail.available, ret |-> c.ret,
                   trace |-> avail.trace \o <<"ollama">> \o c.trace,
                   log |-> avail.log
                           \o <<"warning: Ollama failed, falling back to OpenAI">>]
        ELSE [available |-> avail.available, ret |-> c.ret,
              trace |-> avail.trace \o c.trace, log |-> avail.log]

(***************************************************************************)
(* SpecGate: the gate applied once to a text of at most MaxWords items.    *)
(***************************************************************************)
pureVars == <<feed_text, feed_left, feed_buffer, feed_sentences,
              fu_response, fu_out, fu_prev>>
auxVars == <<rot_tasks, rot_running, rot_done, sc_file, sc_images, sc_rows, sc_out,
             tm_in, tm_timed, tm_plain>>
lateVars == <<pr_in, pr_out, cfg, cfg_file, cfg_now>>
vars == <<gateVars, llm_provider, cacheVars, svcVars, fallback_question_index, reqVars,
          pureVars, auxVars, lateVars>>

\* The state after import: nothing loaded, nothing probed.
CachesAtStart ==
    /\ kokoro_pipeline = None
    /\ kokoro_pipeline_error = None
    /\ stt_model = None
    /\ stt_model_error = None
    /\ ollama_available = None

Capabilities == {"stt", "llm", "tts"}

\* Variables of the other specifications, at rest.
GateAtRest == gate_text = <<>> /\ gate_out = [fn |-> None]
FeedAtRest ==
    /\ feed_text = <<>>
    /\ feed_left = <<>>
    /\ feed_buffer = <<>>
    /\ feed_sentences = <<>>
FollowupsAtRest ==
    /\ fu_response = <<>>
    /\ fu_out = [called |-> FALSE]
    /\ fu_prev = [called |-> FALSE]
\* Request tasks are numbered from 1.
NoTask == 0
RotationAtRest ==
    /\ rot_tasks = <<>>
    /\ rot_running = NoTask
    /\ rot_done = 0
RetrievalAtRest ==
    /\ sc_file = [state |-> "missing", kind |-> None, lion |-> "absent"]
    /\ sc_images = [kind |-> None, lion |-> "absent"]
    /\ sc_rows = <<>>
    /\ sc_out = [called |-> FALSE]
TimerAtRest ==
    /\ tm_in = [kind |-> None]
    /\ tm_timed = [called |-> FALSE]
    /\ tm_plain = [called |-> FALSE]
PromptAtRest ==
    /\ pr_in = [kind |-> None]
    /\ pr_out = [called |-> FALSE]
ConfigAtRest ==
    /\ cfg = [loaded |-> FALSE]
    /\ cfg_file = [state |-> "missing"]
    /\ cfg_now = 0
LateAtRest == PromptAtRest /\ ConfigAtRest
AuxAtRest == RotationAtRest /\ RetrievalAtRest /\ TimerAtRest
ReqAtRest ==
    /\ req = [kind |-> None]
    /\ pc = "idle"
    /\ input_check = [run |-> None]
    /\ req_calls = <<>>
    /\ response = [status |-> 0]
    /\ events = <<>>
    /\ gen = [phase |-> None]
    /\ reply = <<>>
    /\ buffer = <<>>
    /\ pending = <<>>
    /\ sentence_index = 0
    /\ skip_tts = FALSE
    /\ saved = <<>>
    /\ submitted = <<>>
    /\ transcript = [called |-> FALSE]
SvcAtRest ==
    /\ svc_last = [cap |-> None]
    /\ svc_hist = [c \in Capabilities |->
                     [inits |-> 0, init_oks |-> 0, local_failed |-> FALSE,
                      cloud_failed |-> FALSE]]
    /\ svc_calls = 0

InitGate ==
    /\ gate_text \in Texts
    /\ gate_out = [fn |-> None]
    /\ llm_provider = "unset"
    /\ CachesAtStart
    /\ SvcAtRest
    /\ fallback_question_index = 0
    /\ ReqAtRest
    /\ AuxAtRest
    /\ LateAtRest
    /\ FeedAtRest
    /\ FollowupsAtRest

\* One call validate_input(gate_text) under some configuration and some
\* answers of the moderation backends.
ValidateInput ==
    /\ gate_out.fn = None
    /\ \E p \in Providers, g \in GuardAnswers, m \in ModerationAnswers :
         gate_out' = [fn |-> "validate_input", llm_provider |-> p, guard |-> g,
                      mod |-> m, run |-> validate_input(gate_text, p, g, m)]
    /\ UNCHANGED <<gate_text, llm_provider, cacheVars, svcVars,
                   fallback_question_index, reqVars, pureVars, auxVars, lateVars>>

\* One call validate_output(gate_text).
ValidateOutput ==
    /\ gate_out.fn = None
    /\ \E m \in ModerationAnswers :
         gate_out' = [fn |-> "validate_output", llm_provider |-> None, guard |-> None,
                      mod |-> m, run |-> validate_output(gate_text, m)]
    /\ UNCHANGED <<gate_text, llm_provider, cacheVars, svcVars,
                   fallback_question_index, reqVars, pureVars, auxVars, lateVars>>

NextGate == ValidateInput \/ ValidateOutput

SpecGate == InitGate /\ [][NextGate]_vars

(***************************************************************************)
(* Safety Gate claims, checked under SpecGate.                             *)
(***************************************************************************)
\* The order of the checks of validate_input.
StageOrder == <<"length", "injection", "pii", "topic", "moderation">>

\* What each of the four local checks answers on a text, in StageOrder.
LocalChecks(text) ==
    << IF TextLen(text) > MAX_INPUT_LENGTH
       THEN SafetyResult(FALSE, ReasonTooLong, <<>>)
       ELSE SafetyResult(TRUE, None, <<>>),
       check_prompt_injection(text).result,
       check_pii(text).result,
       check_on_topic(text).result >>

FailingLocal(text) == { i \in 1..4 : ~LocalChecks(text)[i].is_safe }

FirstOf(S) == CHOOSE i \in S : \A j \in S : i <= j

InputRun == gate_out.fn = "validate_input"
OutputRun == gate_out.fn = "validate_output"

\* C2: validate_input evaluates length, prompt injection, PII, topic and
\* moderation in this order and returns the result of the first check that
\* fails; when one of the four local checks fails, no moderation backend
\* (LlamaGuard, cloud moderation API) is called.
C2_FirstFailingCheckWins ==
    InputRun =>
      LET failing == FailingLocal(gate_text)
          run == gate_out.run
      IN  IF failing # {}
          THEN /\ run.result = LocalChecks(gate_text)[FirstOf(failing)]
               /\ run.evaluated = SubSeq(StageOrder, 1, FirstOf(failing))
               /\ run.calls = <<>>
          ELSE /\ run.evaluated = StageOrder
               /\ run.result.is_safe =
                    (IF gate_out.llm_provider = "ollama" /\ gate_out.guard # "raise"
                     THEN gate_out.guard = "safe"
                     ELSE gate_text = <<>> \/ gate_out.mod # "flag")

\* A run on a text of legal length without injection phrase that holds PII
\* and is off topic: two local checks fail and the run stopped at the first.
C2_Witness ==
    /\ InputRun
    /\ FailingLocal(gate_text) = {3, 4}
    /\ gate_out.run.evaluated = <<"length", "injection", "pii">>

\* C3: for every input longer than 500 characters validate_input returns
\* the length failure, whatever else the input contains, and evaluates no
\* other check.
C3_TooLongAlwaysLengthFailure ==
    (InputRun /\ TextLen(gate_text) > MAX_INPUT_LENGTH) =>
      /\ gate_out.run.result = SafetyResult(FALSE, ReasonTooLong, <<>>)
      /\ gate_out.run.evaluated = <<"length">>
      /\ gate_out.run.calls = <<>>

\* A run on a text of more than 500 characters that also holds an injection
\* phrase and an e-mail address and is off topic.
C3_Witness ==
    /\ InputRun
    /\ TextLen(gate_text) > MAX_INPUT_LENGTH
    /\ FailingLocal(gate_text) = {1, 2, 3, 4}
    /\ gate_out.run.result.reason = ReasonTooLong

HasPIIAndOffTopic(text) ==
    /\ FoundPII(text, 1) # <<>>
    /\ ~check_on_topic(text).result.is_safe

\* C4 as stated: for every text that contains both a PII pattern and an
\* off-topic phrasing, validate_input reports the PII failure with the
\* matched PII types as categories, and never off_topic.
C4_Original_PIIReportedForEveryText ==
    (InputRun /\ HasPIIAndOffTopic(gate_text)) =>
      /\ gate_out.run.result = SafetyResult(FALSE, ReasonPII, FoundPII(gate_text, 1))
      /\ gate_out.run.result.categories # <<"off_topic">>

\* C4 as amended: a text that contains both a PII pattern and an off-topic
\* phrasing never gets off_topic reported; if it has at most 500 characters
\* and matches no injection pattern, the PII failure is reported with the
\* matched PII types, in PII_PATTERNS order, as categories.
C4_PIIBeforeOffTopic ==
    (InputRun /\ HasPIIAndOffTopic(gate_text)) =>
      /\ gate_out.run.result.categories # <<"off_topic">>
      /\ "topic" \notin { gate_out.run.evaluated[i] : i \in DOMAIN gate_out.run.evaluated }
      /\ (TextLen(gate_text) <= MAX_INPUT_LENGTH
          /\ check_prompt_injection(gate_text).result.is_safe)
         => gate_out.run.result =
              SafetyResult(FALSE, ReasonPII, FoundPII(gate_text, 1))

\* A run on an off-topic text with two kinds of PII that stopped at the PII
\* check.
C4_Witness ==
    /\ InputRun
    /\ HasPIIAndOffTopic(gate_text)
    /\ gate_out.run.result.reason = ReasonPII
    /\ Len(gate_out.run.result.categories) = 2

\* Every moderation backend call of the run failed with an exception.
AllBackendCallsRaised ==
    /\ InSeq("llamaguard", gate_out.run.calls) => gate_out.guard = "raise"
    /\ InSeq("openai_moderation", gate_out.run.calls) => gate_out.mod = "raise"

\* C5: if an input passes the four local checks and every moderation
\* backend call raises, validate_input returns is_safe = TRUE and each
\* failure is logged; validate_output likewise returns is_safe = TRUE when
\* its moderation call raises.
C5_ModerationFailsOpen ==
    /\ (InputRun /\ FailingLocal(gate_text) = {} /\ AllBackendCallsRaised) =>
         /\ gate_out.run.result = SafetyResult(TRUE, None, <<>>)
         /\ InSeq("llamaguard", gate_out.run.calls)
              => InSeq("warning: LlamaGuard failed", gate_out.run.log)
         /\ InSeq("openai_moderation", gate_out.run.calls)
              => InSeq("error: Moderation API error", gate_out.run.log)
    /\ (OutputRun /\ gate_out.mod = "raise") =>
         /\ gate_out.run.result = SafetyResult(TRUE, None, <<>>)
         /\ gate_text # <<>> => InSeq("error: Moderation API error", gate_out.run.log)

\* A run with the local provider configured in which LlamaGuard and then
\* the cloud moderation API were called and both raised.
C5_Witness ==
    /\ InputRun
    /\ FailingLocal(gate_text) = {}
    /\ gate_out.run.calls = <<"llamaguard", "openai_moderation">>
    /\ gate_out.guard = "raise" /\ gate_out.mod = "raise"
    /\ gate_out.run.result.is_safe

(***************************************************************************)
(* SpecDispatch: up to MaxCalls calls of the three fallback dispatchers,   *)
(* one after another, over the process-wide caches.                        *)
(***************************************************************************)
InitDispatch ==
    /\ llm_provider \in Providers
    /\ CachesAtStart
    /\ SvcAtRest
    /\ GateAtRest
    /\ fallback_question_index = 0
    /\ ReqAtRest
    /\ AuxAtRest
    /\ LateAtRest
    /\ FeedAtRest
    /\ FollowupsAtRest

\* The provider operations that touch the local provider of a capability.
LocalOps(cap) ==
    CASE cap = "tts" -> {"init_kokoro", "kokoro"}
      [] cap = "stt" -> {"init_whisper", "whisper"}
      [] cap = "llm" -> {"ollama_health", "ollama"}

\* The operation that constructs or probes the local provider.
ProbeOp(cap) ==
    CASE cap = "tts" -> "init_kokoro"
      [] cap = "stt" -> "init_whisper"
      [] cap = "llm" -> "ollama_health"

\* The operation that executes a request on the local / cloud provider.
LocalExecOp(cap) ==
    CASE cap = "tts" -> "kokoro" [] cap = "stt" -> "whisper" [] cap = "llm" -> "ollama"
CloudExecOp(cap) ==
    CASE cap = "tts" -> "openai_tts"
      [] cap = "stt" -> "openai_whisper"
      [] cap = "llm" -> "openai_chat"

\* The record kept of one service call.
CallRecord(cap, probe_ok, local, cloud, r) ==
    [cap |-> cap, probe_ok |-> probe_ok, local |-> local, cloud |-> cloud,
     ret |-> r.ret, trace |-> r.trace, log |-> r.log,
     prior_local_failure |-> svc_hist[cap].local_failed]

\* The history of a capability after a call with trace r.trace.
HistAfter(cap, probe_ok, local, cloud, r) ==
    LET probed == InSeq(ProbeOp(cap), r.trace)
        executed == InSeq(LocalExecOp(cap), r.trace)
        h == svc_hist[cap]
    IN  [svc_hist EXCEPT ![cap] =
           [inits |-> h.inits + (IF probed THEN 1 ELSE 0),
            init_oks |-> h.init_oks + (IF probed /\ probe_ok THEN 1 ELSE 0),
            local_failed |-> \/ h.local_failed
                             \/ probed /\ ~probe_ok
                             \/ executed /\ local = "raise",
            cloud_failed |-> \/ h.cloud_failed
                             \/ InSeq(CloudExecOp(cap), r.trace) /\ cloud = "raise"]]

\* One call of TTSService.synthesize.
Synthesize ==
    /\ svc_calls < MaxCalls
    /\ \E init \in InitOutcomes, local \in ExecOutcomes, cloud \in ExecOutcomes :
         LET r == TTSService_synthesize(kokoro_pipeline, kokoro_pipeline_error,
                                        init, local, cloud)
         IN  /\ kokoro_pipeline' = r.pipeline
             /\ kokoro_pipeline_error' = r.error
             /\ svc_last' = CallRecord("tts", init = "ok", local, cloud, r)
             /\ svc_hist' = HistAfter("tts", init = "ok", local, cloud, r)
    /\ svc_calls' = svc_calls + 1
    /\ UNCHANGED <<gateVars, llm_provider, stt_model, stt_model_error, ollama_available,
                   fallback_question_index, reqVars, pureVars, auxVars, lateVars>>

\* One call of STTService.transcribe.
Transcribe ==
    /\ svc_calls < MaxCalls
    /\ \E audio \in AudioFormats, init \in InitOutcomes, local \in ExecOutcomes,
          cloud \in ExecOutcomes :
         LET r == STTService_transcribe(stt_model, stt_model_error, audio,
                                        init, local, cloud)
         IN  /\ stt_model' = r.model
             /\ stt_model_error' = r.error
             /\ svc_last' = CallRecord("stt", init = "ok", local, cloud, r)
             /\ svc_hist' = HistAfter("stt", init = "ok", local, cloud, r)
    /\ svc_calls' = svc_calls + 1
    /\ UNCHANGED <<gateVars, llm_provider, kokoro_pipeline, kokoro_pipeline_error,
                   ollama_available, fallback_question_index, reqVars, pureVars, auxVars, lateVars>>

\* One call of LLMService.generate; the service object exists only when the
\* settings it reads in its constructor exist.
Generate ==
    /\ svc_calls < MaxCalls
    /\ llm_provider # "unset"
    /\ \E health \in HealthOutcomes, local \in ExecOutcomes, cloud \in ExecOutcomes :
         LET r == LLMService_generate(llm_provider, ollama_available,
                                      health, local, cloud)
         IN  /\ ollama_available' = r.available
             /\ svc_last' = CallRecord("llm", health = "up", local, cloud, r)
             /\ svc_hist' = HistAfter("llm", health = "up", local, cloud, r)
    /\ svc_calls' = svc_calls + 1
    /\ UNCHANGED <<gateVars, llm_provider, kokoro_pipeline, kokoro_pipeline_error,
                   stt_model, stt_model_error, fallback_question_index, reqVars, pureVars, auxVars, lateVars>>

NextDispatch == Synthesize \/ Transcribe \/ Generate

SpecDispatch == InitDispatch /\ [][NextDispatch]_vars

(***************************************************************************)
(* Fallback dispatcher claims, checked under SpecDispatch.                 *)
(***************************************************************************)
Called == svc_last.cap # None

\* The local attempt of the last call raised.
LocalRaised ==
    /\ InSeq(LocalExecOp(svc_last.cap), svc_last.trace)
    /\ svc_last.local = "raise"

\* The local attempt of the last call returned a result.
LocalSucceeded ==
    /\ InSeq(LocalExecOp(svc_last.cap), svc_last.trace)
    /\ svc_last.local = "ok"

FallbackWarning(cap) ==
    CASE cap = "tts" -> "warning: [TTS] Kokoro failed"
      [] cap = "stt" -> "warning: [STT] Faster-Whisper failed"
      [] cap = "llm" -> "warning: Ollama failed, falling back to OpenAI"

CloudResults(cap) ==
    CASE cap = "tts" -> {"openai_audio"}
      [] cap = "stt" -> {"openai_text", "mock_text"}
      [] cap = "llm" -> {"openai_reply"}

\* C8: in transcribe, generate and synthesize an exception of the local
\* attempt is logged and does not reach the caller (the call goes on to the
\* cloud provider); the call raises only when the cloud attempt failed
\* after the local attempt failed or was skipped.
C8_LocalFailureNeverSurfaces ==
    Called =>
      /\ LocalRaised =>
           /\ InSeq(FallbackWarning(svc_last.cap), svc_last.log)
           /\ svc_last.ret \in
                (IF svc_last.cloud = "ok" THEN {} ELSE {"raise"})
                  \cup CloudResults(svc_last.cap)
      /\ svc_last.ret = "raise" =>
           /\ InSeq(CloudExecOp(svc_last.cap), svc_last.trace)
           /\ svc_last.cloud = "raise"
           /\ ~LocalSucceeded
      /\ (svc_last.cloud = "ok" /\ ~LocalSucceeded) =>
           svc_last.ret \in CloudResults(svc_last.cap)

\* A synthesize call whose Kokoro run raised and whose OpenAI call answered.
C8_Witness ==
    /\ Called
    /\ svc_last.cap = "tts"
    /\ LocalRaised
    /\ svc_last.ret = "openai_audio"

\* C9 as stated: as long as every initialization attempt of the local STT /
\* TTS provider has failed and every cloud call has answered, every
\* transcribe and synthesize call returned the cloud result and the local
\* initialization has been attempted at most once in the process.
C9_Original_InitAttemptedOnce ==
    \A cap \in {"stt", "tts"} :
      (svc_hist[cap].init_oks = 0 /\ ~svc_hist[cap].cloud_failed) =>
        /\ svc_hist[cap].inits <= 1
        /\ (Called /\ svc_last.cap = cap) => svc_last.ret \in CloudResults(cap)

\* C10 as stated: once the local provider of a capability has failed in one
\* request (while initializing or while executing), no later request
\* touches the local provider again.
C10_Original_FailedLocalNotRetried ==
    (Called /\ svc_last.prior_local_failure) =>
      \A op \in LocalOps(svc_last.cap) : ~InSeq(op, svc_last.trace)


(***************************************************************************)
(* Spec: the routers.  POST /chat (routers/chat.py chat), POST             *)
(* /chat/stream (chat_stream) and POST /voice/tts/stream (routers/voice.py *)
(* tts_stream) handle one request at a time; pc is the handler's position  *)
(* and every action is the code between two positions.  Texts the          *)
(* language model produces are sequences of fragments: words, and the      *)
(* single characters ".", "!", "?", " " and "\n".                          *)
(***************************************************************************)
Kinds == {"chat", "chat_stream", "tts_stream"}

\* The session store holds session s1; s0 was never created.
ExistingSessions == {"s1"}
SessionIds == {"s1", "s0"}

\* Message bodies: on topic, carrying an e-mail address, off topic.
Messages == { <<"lions">>, <<"a@b.com">>, <<"taxes", "taxes", "taxes", "taxes">> }

\* The methods class SessionService defines.
SessionServiceMethods ==
    {"get_or_create_session", "save_message", "get_chat_history",
     "get_session_stats", "get_session"}

\* SessionService.get_session: the session row, or None.
get_session(session_id) ==
    IF session_id \in ExistingSessions THEN session_id ELSE None

BLOCKED_INPUT_RESPONSE ==
    <<"Hmm, I'm not sure about that question! I love talking about animals - ask me about lions, elephants, or any other animal at the park!">>
SAFE_FALLBACK_RESPONSE ==
    <<"Oops! Let's talk about something else. What animal at Leesburg Animal Park would you like to learn about?">>

\* len(FALLBACK_FOLLOWUP_QUESTIONS); a question is named by its position.
FALLBACK_POOL_SIZE == 30

\* Mutant: the index is advanced without wrapping around the pool.
get_fallback_questions_NoWrap(index, count) ==
    [questions |-> [i \in 1..count |-> (index + i - 1) % FALLBACK_POOL_SIZE],
     index |-> index + count]

\* Mutant: the index is not advanced.
get_fallback_questions_NoRotation(index, count) ==
    [questions |-> [i \in 1..count |-> (index + i - 1) % FALLBACK_POOL_SIZE],
     index |-> index]

\* get_fallback_questions(count): the next count questions of the pool and
\* the index left behind.
get_fallback_questions(index, count) ==
    [questions |-> [i \in 1..count |-> (index + i - 1) % FALLBACK_POOL_SIZE],
     index |-> (index + count) % FALLBACK_POOL_SIZE]

MARKER == "Want to explore more"
\* "Want to explore more?" in text
HasMarker(text) ==
    \E i \in 1..(Len(text) - 1) : text[i] = MARKER /\ text[i + 1] = "?"

\* What the language model answers, as the chunks of its stream.
AnswerPlain == << <<"Lions roar", ".", " ">>, <<"They nap">> >>
AnswerFollowups ==
    << <<"Lions roar", ".", " ", MARKER>>,
       <<"?", "\n", "1", ".", " ", "Why do lions roar", "?">> >>
\* Two sentences in one chunk and a third in the next.
AnswerThree ==
    << <<"Zebras graze", ".", " ", "Owls hoot", ".", " ">>, <<"Bats fly", ".">> >>
\* A sentence and the follow-up header arriving in one chunk.
AnswerOneChunk == << <<"Lions roar", ".", " ", MARKER, "?">> >>
Answers == {AnswerPlain, AnswerFollowups, AnswerThree, AnswerOneChunk}

RECURSIVE Flatten(_)
Flatten(chunks) ==
    IF chunks = <<>> THEN <<>> ELSE Head(chunks) \o Flatten(Tail(chunks))

IsPunct(c) == c \in {".", "!", "?"}
IsSpace(c) == c \in {" ", "\n"}

\* str.strip()
RECURSIVE strip(_)
strip(text) ==
    IF text = <<>> THEN <<>>
    ELSE IF IsSpace(Head(text)) THEN strip(Tail(text))
    ELSE IF IsSpace(text[Len(text)]) THEN strip(SubSeq(text, 1, Len(text) - 1))
    ELSE text

\* The first position at or after pos that holds no sentence punctuation.
RECURSIVE RunEnd(_, _)
RunEnd(text, pos) ==
    IF pos > Len(text) \/ ~IsPunct(text[pos]) THEN pos ELSE RunEnd(text, pos + 1)

\* SENTENCE_ENDINGS.finditer from pos on, with the sentences found so far.
RECURSIVE ScanSentences(_, _, _, _)
ScanSentences(text, pos, last_end, sentences) ==
    IF pos > Len(text)
    THEN [sentences |-> sentences, remaining |-> SubSeq(text, last_end + 1, Len(text))]
    ELSE IF ~IsPunct(text[pos])
    THEN ScanSentences(text, pos + 1, last_end, sentences)
    ELSE LET j == RunEnd(text, pos)
             matched == j > Len(text) \/ IsSpace(text[j])
             end_pos == IF j > Len(text) THEN Len(text) ELSE j
             sentence == strip(SubSeq(text, last_end + 1, end_pos))
         IN  IF matched
             THEN ScanSentences(text, end_pos + 1, end_pos,
                                IF sentence # <<>> THEN Append(sentences, sentence)
                                ELSE sentences)
             ELSE ScanSentences(text, j, last_end, sentences)

\* Mutant: the sentences of one call come out last first.
extract_sentences_Reversed(text) ==
    LET found == ScanSentences(text, 1, 0, <<>>)
        n == Len(found.sentences)
    IN  [sentences |-> [i \in 1..n |-> found.sentences[n + 1 - i]],
         remaining |-> found.remaining]

\* Mutant: the whole buffer is handed back as the remainder.
extract_sentences_KeepsBuffer(text) ==
    [sentences |-> ScanSentences(text, 1, 0, <<>>).sentences, remaining |-> text]

\* routers/voice.py extract_sentences
extract_sentences(text) == ScanSentences(text, 1, 0, <<>>)

\* The first line break after position i, or 0.
RECURSIVE NextBreak(_, _)
NextBreak(text, i) ==
    IF i > Len(text) THEN 0
    ELSE IF text[i] = "\n" THEN i ELSE NextBreak(text, i + 1)

IsDigit(c) == c \in {"1", "2", "3"}

\* The first position at or after pos that holds no digit / no whitespace /
\* a line break (Len(text) + 1 when there is none).
RECURSIVE SkipDigits(_, _)
SkipDigits(text, pos) ==
    IF pos > Len(text) \/ ~IsDigit(text[pos]) THEN pos ELSE SkipDigits(text, pos + 1)
RECURSIVE SkipSpace(_, _)
SkipSpace(text, pos) ==
    IF pos > Len(text) \/ ~IsSpace(text[pos]) THEN pos ELSE SkipSpace(text, pos + 1)
RECURSIVE LineEnd(_, _)
LineEnd(text, pos) ==
    IF pos > Len(text) \/ text[pos] = "\n" THEN pos ELSE LineEnd(text, pos + 1)

\* The numbered list ((?:\d+\.\s+.+(?:\n|$))+) matched from position p on:
\* the contents (.+) of its items.  An item is digits, a dot, whitespace
\* (line breaks included) and the rest of the line; when the whitespace
\* runs to the end of the text, its last blank is given back as content.
RECURSIVE ParseItems(_, _, _)
ParseItems(text, p, items) ==
    LET n == Len(text)
        q == SkipDigits(text, p)
        w == SkipSpace(text, q + 1)
        c == LineEnd(text, w)
    IN  IF q = p \/ q > n \/ text[q] # "." \/ w = q + 1 THEN items
        ELSE IF w > n
        THEN IF text[n] = " " /\ n - q >= 2 THEN Append(items, <<" ">>) ELSE items
        ELSE IF c > n THEN Append(items, SubSeq(text, w, c - 1))
        ELSE ParseItems(text, c + 1, Append(items, SubSeq(text, w, c - 1)))

\* str.rstrip('?')
RECURSIVE rstrip_question(_)
rstrip_question(text) ==
    IF text # <<>> /\ text[Len(text)] = "?"
    THEN rstrip_question(SubSeq(text, 1, Len(text) - 1))
    ELSE text

\* [q.strip().rstrip('?') + '?' for q in questions if q.strip()]
QuestionsOf(items) ==
    LET kept == SelectSeq(items, LAMBDA q : strip(q) # <<>>)
    IN  [i \in DOMAIN kept |-> Append(rstrip_question(strip(kept[i])), "?")]

\* re.search of the second pattern (header "Want to explore more?") or the
\* third (header "explore more"): the leftmost header whose next line
\* starts a numbered list.  The first pattern needs the bold markup "**",
\* which the texts of the model do not contain.
PatternSearch(text, pattern) ==
    LET after(i) == IF pattern = 2 THEN i + 2 ELSE i + 1
        heads == { i \in DOMAIN text :
                     /\ text[i] = MARKER
                     /\ pattern = 2 => (i + 1 <= Len(text) /\ text[i + 1] = "?")
                     /\ NextBreak(text, after(i)) # 0
                     /\ ParseItems(text, NextBreak(text, after(i)) + 1, <<>>) # <<>> }
    IN  IF heads = {} THEN [found |-> FALSE]
        ELSE LET i == CHOOSE h \in heads : \A g \in heads : h <= g
             IN  [found |-> TRUE, start |-> i,
                  questions |-> QuestionsOf(
                      ParseItems(text, NextBreak(text, after(i)) + 1, <<>>))]

\* RAGService.extract_followup_questions: the text before the follow-up
\* section and its questions when a pattern finds some, else the response
\* unchanged and three fallback questions.  The third pattern matches from
\* "explore more" on, so "Want to" stays in the main text.
extract_followup_questions(text, index) ==
    LET second == PatternSearch(text, 2)
        third == PatternSearch(text, 3)
        fallback == get_fallback_questions(index, 3)
    IN  IF second.found /\ second.questions # <<>>
        THEN [main |-> strip(SubSeq(text, 1, second.start - 1)),
              questions |-> second.questions, extracted |-> TRUE, index |-> index]
        ELSE IF third.found /\ third.questions # <<>>
        THEN [main |-> strip(SubSeq(text, 1, third.start - 1) \o <<"Want to">>),
              questions |-> third.questions, extracted |-> TRUE, index |-> index]
        ELSE [main |-> text, questions |-> fallback.questions,
              extracted |-> FALSE, index |-> fallback.index]

\* HTTP responses and server-sent events.
Response(status_code, text, followup_questions) ==
    [status |-> status_code, reply |-> text, followups |-> followup_questions]
NotFound == Response(404, <<"SESSION_NOT_FOUND">>, <<>>)
ServerError == Response(500, <<"Internal Server Error">>, <<>>)
EventSourceResponse == Response(200, <<"text/event-stream">>, <<>>)

TextEvent(content) ==
    [type |-> "text", content |-> content, index |-> -1, followups |-> <<>>]
AudioEvent(sentence, index) ==
    [type |-> "audio", content |-> sentence, index |-> index, followups |-> <<>>]
\* Mutant: the done event counts the sentences submitted for synthesis.
DoneEvent_CountsSubmitted(total_sentences, followup_questions) ==
    [type |-> "done", content |-> <<>>,
     index |-> IF total_sentences < 0 THEN total_sentences ELSE Len(submitted),
     followups |-> followup_questions]
DoneEvent(total_sentences, followup_questions) ==
    [type |-> "done", content |-> <<>>, index |-> total_sentences,
     followups |-> followup_questions]
ErrorEvent ==
    [type |-> "error", content |-> <<"str(e)">>, index |-> -1, followups |-> <<>>]

InitRouters ==
    /\ llm_provider \in Providers
    /\ CachesAtStart
    /\ SvcAtRest
    /\ GateAtRest
    /\ fallback_question_index = 0
    /\ ReqAtRest
    /\ AuxAtRest
    /\ LateAtRest
    /\ FeedAtRest
    /\ FollowupsAtRest

othersAtRest == <<gateVars, llm_provider, stt_model, stt_model_error, svcVars,
                  pureVars, auxVars, lateVars>>

\* Mutant: the exception is swallowed and the request ends as a success.
HandlerFails_Swallowed(trace) ==
    /\ req_calls' = req_calls \o trace
    /\ pc' = "done"
    /\ IF response.status = 0
       THEN response' = Response(200, <<>>, <<>>) /\ events' = events
       ELSE response' = response /\ events' = Append(events, DoneEvent(-1, <<>>))

\* An exception leaves the code at pc: POST /chat and the two handlers
\* before they return their EventSourceResponse answer 500; inside the
\* event generators the except clause emits an error event.
HandlerFails(trace) ==
    /\ req_calls' = req_calls \o trace
    /\ pc' = "done"
    /\ IF response.status = 0
       THEN response' = ServerError /\ events' = events
       ELSE response' = response /\ events' = Append(events, ErrorEvent)

\* A request arrives; the handler looks its session up.
Receive ==
    /\ pc = "idle"
    /\ \E kind \in Kinds, session_id \in SessionIds, message \in Messages :
         /\ req' = [kind |-> kind, session_id |-> session_id, message |-> message]
         /\ req_calls' = <<"get_session">>
         /\ IF get_session(session_id) = None
            THEN response' = NotFound /\ pc' = "done"
            ELSE IF kind = "tts_stream"
            THEN response' = EventSourceResponse /\ pc' = "retrieve"
            ELSE response' = [status |-> 0] /\ pc' = "validate"
    /\ input_check' = [run |-> None]
    /\ events' = <<>>
    /\ gen' = [phase |-> None]
    /\ reply' = <<>>
    /\ buffer' = <<>>
    /\ pending' = <<>>
    /\ sentence_index' = 0
    /\ skip_tts' = FALSE
    /\ saved' = <<>>
    /\ submitted' = <<>>
    /\ transcript' = [called |-> FALSE]
    /\ UNCHANGED <<othersAtRest, kokoro_pipeline, kokoro_pipeline_error,
                   ollama_available, fallback_question_index>>

\* chat and chat_stream: validate_input, and the branch taken when it
\* rejects the message.
ValidateInputStep ==
    /\ pc = "validate"
    /\ \E guard \in GuardAnswers, mod \in ModerationAnswers :
         LET run == validate_input(req.message, llm_provider, guard, mod)
             trace == <<"validate_input">> \o run.calls
             questions == get_fallback_questions(fallback_question_index, 3)
         IN  /\ input_check' = [run |-> "done", result |-> run.result]
             /\ IF run.result.is_safe
                THEN /\ req_calls' = req_calls \o trace
                     /\ pc' = "retrieve"
                     /\ response' = IF req.kind = "chat_stream"
                                    THEN EventSourceResponse ELSE response
                     /\ UNCHANGED <<events, fallback_question_index>>
                ELSE IF "log_blocked_message" \notin SessionServiceMethods
                THEN /\ HandlerFails(trace \o <<"log_blocked_message">>)
                     /\ UNCHANGED fallback_question_index
                ELSE /\ req_calls' = req_calls \o trace \o <<"log_blocked_message">>
                     /\ pc' = "done"
                     /\ fallback_question_index' = questions.index
                     /\ IF req.kind = "chat"
                        THEN /\ response' = Response(200, BLOCKED_INPUT_RESPONSE,
                                                     questions.questions)
                             /\ events' = events
                        ELSE /\ response' = EventSourceResponse
                             /\ events' = <<TextEvent(BLOCKED_INPUT_RESPONSE),
                                            DoneEvent(-1, questions.questions)>>
    /\ UNCHANGED <<othersAtRest, transcript, kokoro_pipeline, kokoro_pipeline_error,
                   ollama_available, req, submitted, gen, reply, buffer, pending,
                   sentence_index, skip_tts, saved>>

\* RAGService.search_context.
Retrieve ==
    /\ pc = "retrieve"
    /\ \E search \in ExecOutcomes :
         IF search = "ok"
         THEN /\ req_calls' = Append(req_calls, "search_context")
              /\ pc' = IF req.kind = "chat" THEN "generate" ELSE "stream"
              /\ gen' = [phase |-> "start"]
              /\ UNCHANGED <<response, events>>
         ELSE /\ HandlerFails(<<"search_context">>)
              /\ UNCHANGED gen
    /\ UNCHANGED <<othersAtRest, transcript, kokoro_pipeline, kokoro_pipeline_error,
                   ollama_available, fallback_question_index, req, submitted, input_check,
                   reply, buffer, pending, sentence_index, skip_tts, saved>>

\* chat: RAGService.generate_response, which reads settings.llm_provider
\* for its log line and then calls LLMService.generate.
ChatGenerate ==
    /\ pc = "generate"
    /\ IF llm_provider = "unset"
       THEN /\ HandlerFails(<<"generate_response">>)
            /\ UNCHANGED <<reply, ollama_available, gen>>
       ELSE \E health \in HealthOutcomes, local \in ExecOutcomes,
               cloud \in ExecOutcomes, answer \in Answers :
              LET r == LLMService_generate(llm_provider, ollama_available,
                                           health, local, cloud)
              IN  /\ ollama_available' = r.available
                  /\ IF r.ret = "raise"
                     THEN /\ HandlerFails(<<"generate_response">> \o r.trace)
                          /\ gen' = [phase |-> "failed"]
                          /\ UNCHANGED reply
                     ELSE /\ req_calls' = req_calls \o <<"generate_response">> \o r.trace
                          /\ reply' = Flatten(answer)
                          /\ pc' = "output"
                          /\ UNCHANGED <<response, events, gen>>
    /\ UNCHANGED <<othersAtRest, transcript, kokoro_pipeline, kokoro_pipeline_error,
                   fallback_question_index, req, submitted, input_check, buffer,
                   pending, sentence_index, skip_tts, saved>>

\* chat: validate_output, then analytics, the two save_message calls and
\* the response.
ChatOutput ==
    /\ pc = "output"
    /\ \E mod \in ModerationAnswers, record \in ExecOutcomes,
          save_user \in ExecOutcomes, save_assistant \in ExecOutcomes :
         LET run == validate_output(reply, mod)
             trace == <<"validate_output">> \o run.calls
             questions == get_fallback_questions(fallback_question_index, 3)
         IN  IF ~run.result.is_safe
             THEN /\ req_calls' = req_calls \o trace
                  /\ response' = Response(200, SAFE_FALLBACK_RESPONSE,
                                          questions.questions)
                  /\ fallback_question_index' = questions.index
                  /\ pc' = "done"
                  /\ UNCHANGED <<events, saved>>
             ELSE IF record = "raise"
             THEN /\ HandlerFails(trace \o <<"record_interaction">>)
                  /\ UNCHANGED <<fallback_question_index, saved>>
             ELSE IF save_user = "raise"
             THEN /\ HandlerFails(trace \o <<"record_interaction", "save_message">>)
                  /\ UNCHANGED <<fallback_question_index, saved>>
             ELSE IF save_assistant = "raise"
             THEN /\ HandlerFails(trace \o <<"record_interaction", "save_message",
                                              "save_message">>)
                  /\ saved' = <<[role |-> "user", content |-> req.message]>>
                  /\ UNCHANGED fallback_question_index
             ELSE /\ req_calls' = req_calls \o trace
                                  \o <<"record_interaction", "save_message",
                                       "save_message">>
                  /\ saved' = <<[role |-> "user", content |-> req.message],
                                [role |-> "assistant", content |-> reply]>>
                  /\ response' = Response(200, reply, <<>>)
                  /\ pc' = "done"
                  /\ UNCHANGED <<events, fallback_question_index>>
    /\ UNCHANGED <<othersAtRest, transcript, kokoro_pipeline, kokoro_pipeline_error,
                   ollama_available, req, submitted, input_check, gen, reply, buffer,
                   pending, sentence_index, skip_tts>>

\* RAGService.generate_response_stream up to its first yield from: it
\* reads settings.llm_provider, probes Ollama when none was probed, and
\* opens the local or the cloud stream.
StreamStart ==
    /\ pc = "stream"
    /\ gen.phase = "start"
    /\ IF llm_provider = "unset"
       THEN /\ HandlerFails(<<"generate_response_stream">>)
            /\ UNCHANGED <<gen, ollama_available>>
       ELSE \E health \in HealthOutcomes, cloud \in ExecOutcomes, answer \in Answers :
              LET avail == IF llm_provider = "ollama"
                           THEN is_ollama_available(ollama_available, health)
                           ELSE [available |-> ollama_available, ret |-> FALSE,
                                 trace |-> <<>>, log |-> <<>>]
                  trace == <<"generate_response_stream">> \o avail.trace
              IN  /\ ollama_available' = avail.available
                  /\ IF avail.ret
                     THEN /\ gen' = [phase |-> "ollama", left |-> answer]
                          /\ req_calls' = req_calls \o trace \o <<"ollama_stream">>
                          /\ UNCHANGED <<pc, response, events>>
                     ELSE IF cloud = "ok"
                     THEN /\ gen' = [phase |-> "openai", left |-> answer]
                          /\ req_calls' = req_calls \o trace \o <<"openai_stream">>
                          /\ UNCHANGED <<pc, response, events>>
                     ELSE /\ HandlerFails(trace \o <<"openai_stream">>)
                          /\ gen' = [phase |-> "failed"]
    /\ UNCHANGED <<othersAtRest, transcript, kokoro_pipeline, kokoro_pipeline_error,
                   fallback_question_index, req, submitted, input_check, reply, buffer,
                   pending, sentence_index, skip_tts, saved>>

\* The open stream raises: the local one falls back to the cloud stream,
\* which answers from its beginning; the cloud one fails the generator.
StreamRaises ==
    /\ pc = "stream"
    /\ gen.phase \in {"ollama", "openai"}
    /\ IF gen.phase = "ollama"
       THEN \E cloud \in ExecOutcomes, answer \in Answers :
              IF cloud = "ok"
              THEN /\ gen' = [phase |-> "openai", left |-> answer]
                   /\ req_calls' = Append(req_calls, "openai_stream")
                   /\ UNCHANGED <<pc, response, events>>
              ELSE /\ HandlerFails(<<"openai_stream">>)
                   /\ gen' = [phase |-> "failed"]
       ELSE /\ HandlerFails(<<>>)
            /\ gen' = [phase |-> "failed"]
    /\ UNCHANGED <<othersAtRest, transcript, kokoro_pipeline, kokoro_pipeline_error,
                   ollama_available, fallback_question_index, req, submitted, input_check,
                   reply, buffer, pending, sentence_index, skip_tts, saved>>

\* Mutant: the extracted sentences wait while the next chunk is read.
SentenceLoop_Deferred(sentences) == "stream"

\* tts_stream, for sentence in sentences: the loop body runs for every
\* extracted sentence before the for loop over the stream asks for the
\* next chunk.
SentenceLoop(sentences) == IF sentences = <<>> THEN "stream" ELSE "synth"

\* The open stream yields its next chunk, or ends.  chat_stream forwards
\* the chunk as a text event; tts_stream adds it to the buffer, looks for
\* the follow-up header and extracts the complete sentences.
StreamPull ==
    /\ pc = "stream"
    /\ gen.phase \in {"ollama", "openai"}
    /\ IF gen.left = <<>>
       THEN /\ pc' = IF req.kind = "chat_stream" THEN "finish" ELSE "final"
            /\ UNCHANGED <<gen, reply, events, buffer, pending, skip_tts>>
       ELSE LET chunk == Head(gen.left)
                skip == skip_tts \/ HasMarker(buffer \o chunk)
                found == extract_sentences(buffer \o chunk)
            IN  /\ gen' = [gen EXCEPT !.left = Tail(gen.left)]
                /\ reply' = reply \o chunk
                /\ IF req.kind = "chat_stream"
                   THEN /\ events' = Append(events, TextEvent(chunk))
                        /\ UNCHANGED <<pc, buffer, pending, skip_tts>>
                   ELSE /\ skip_tts' = skip
                        /\ buffer' = found.remaining
                        /\ pending' = IF skip THEN <<>> ELSE found.sentences
                        /\ pc' = SentenceLoop(pending')
                        /\ UNCHANGED events
    /\ UNCHANGED <<othersAtRest, transcript, kokoro_pipeline, kokoro_pipeline_error,
                   ollama_available, fallback_question_index, req, submitted, input_check,
                   req_calls, response, sentence_index, saved>>

\* Mutant: the index advances for a sentence whose synthesis failed.
AfterSynthesis_CountsFailures(sentence, ret, emitted, index) ==
    IF ret = "raise"
    THEN [events |-> emitted, index |-> index + 1]
    ELSE [events |-> Append(emitted, AudioEvent(sentence, index)),
          index |-> index + 1]

\* Mutant: a failed synthesis is reported to the client as an error event.
AfterSynthesis_FailureEmitsError(sentence, ret, emitted, index) ==
    IF ret = "raise"
    THEN [events |-> Append(emitted, ErrorEvent), index |-> index]
    ELSE [events |-> Append(emitted, AudioEvent(sentence, index)),
          index |-> index + 1]

\* tts_stream, the try block around one synthesis: when the call returned,
\* an audio event carrying sentence_index is emitted and sentence_index
\* advances; when it raised, a warning is logged and nothing else happens.
AfterSynthesis(sentence, ret, emitted, index) ==
    IF ret = "raise"
    THEN [events |-> emitted, index |-> index]
    ELSE [events |-> Append(emitted, AudioEvent(sentence, index)),
          index |-> index + 1]

\* tts_stream: one extracted sentence goes to TTSService.synthesize_kokoro
\* and is emitted as an audio event; a failure is logged and skipped.
SynthesizeSentence ==
    /\ pc = "synth"
    /\ \E init \in InitOutcomes, local \in ExecOutcomes :
         LET r == synthesize_kokoro(kokoro_pipeline, kokoro_pipeline_error,
                                    init, local)
         IN  /\ kokoro_pipeline' = r.pipeline
             /\ kokoro_pipeline_error' = r.error
             /\ req_calls' = req_calls \o <<"synthesize_kokoro">> \o r.trace
             /\ submitted' = Append(submitted, [sentence |-> Head(pending),
                                                ret |-> r.ret])
             /\ LET after == AfterSynthesis(Head(pending), r.ret, events,
                                            sentence_index)
                IN  events' = after.events /\ sentence_index' = after.index
    /\ pending' = Tail(pending)
    /\ pc' = SentenceLoop(Tail(pending))
    /\ UNCHANGED <<othersAtRest, transcript, ollama_available, fallback_question_index, req,
                   input_check, response, gen, reply, buffer, skip_tts, saved>>

\* tts_stream after the stream ended: what is left in the buffer is
\* synthesized unless the follow-up section was reached.
FinalBuffer ==
    /\ pc = "final"
    /\ IF strip(buffer) # <<>> /\ ~skip_tts
       THEN \E init \in InitOutcomes, local \in ExecOutcomes :
              LET r == synthesize_kokoro(kokoro_pipeline, kokoro_pipeline_error,
                                         init, local)
              IN  /\ kokoro_pipeline' = r.pipeline
                  /\ kokoro_pipeline_error' = r.error
                  /\ req_calls' = req_calls \o <<"synthesize_kokoro">> \o r.trace
                  /\ submitted' = Append(submitted, [sentence |-> strip(buffer),
                                                     ret |-> r.ret])
                  /\ LET after == AfterSynthesis(strip(buffer), r.ret, events,
                                                 sentence_index)
                     IN  events' = after.events /\ sentence_index' = after.index
       ELSE UNCHANGED <<kokoro_pipeline, kokoro_pipeline_error, req_calls,
                        events, sentence_index, submitted>>
    /\ pc' = "record"
    /\ UNCHANGED <<othersAtRest, transcript, ollama_available, fallback_question_index, req,
                   input_check, response, gen, reply, buffer, pending, skip_tts,
                   saved>>

\* chat_stream after the stream ended: the follow-up questions are
\* extracted and the done event is emitted.
ChatStreamDone ==
    /\ pc = "finish"
    /\ LET q == extract_followup_questions(reply, fallback_question_index)
       IN  /\ events' = Append(events, DoneEvent(-1, q.questions))
           /\ fallback_question_index' = q.index
           /\ req_calls' = Append(req_calls, "extract_followup_questions")
    /\ pc' = "record"
    /\ UNCHANGED <<othersAtRest, transcript, kokoro_pipeline, kokoro_pipeline_error,
                   ollama_available, req, submitted, input_check, response, gen, reply,
                   buffer, pending, sentence_index, skip_tts, saved>>

\* The end of the two generators: chat_stream records the interaction and
\* saves the two messages; tts_stream records the interaction and emits
\* its done event.
Record ==
    /\ pc = "record"
    /\ \E record \in ExecOutcomes, save_user \in ExecOutcomes,
          save_assistant \in ExecOutcomes :
         IF record = "raise"
         THEN /\ HandlerFails(<<"record_interaction">>)
              /\ UNCHANGED saved
         ELSE IF req.kind = "chat_stream" /\ save_user = "raise"
         THEN /\ HandlerFails(<<"record_interaction", "save_message">>)
              /\ UNCHANGED saved
         ELSE IF req.kind = "chat_stream" /\ save_assistant = "raise"
         THEN /\ HandlerFails(<<"record_interaction", "save_message", "save_message">>)
              /\ saved' = <<[role |-> "user", content |-> req.message]>>
         ELSE /\ pc' = "done"
              /\ response' = response
              /\ IF req.kind = "chat_stream"
                 THEN /\ req_calls' = req_calls \o <<"record_interaction",
                                                     "save_message", "save_message">>
                      /\ saved' = <<[role |-> "user", content |-> req.message],
                                    [role |-> "assistant", content |-> reply]>>
                      /\ events' = events
                 ELSE /\ req_calls' = Append(req_calls, "record_interaction")
                      /\ events' = Append(events, DoneEvent(sentence_index, <<>>))
                      /\ saved' = saved
    /\ UNCHANGED <<othersAtRest, transcript, kokoro_pipeline, kokoro_pipeline_error,
                   ollama_available, fallback_question_index, req, submitted, input_check,
                   gen, reply, buffer, pending, sentence_index, skip_tts>>

\* Mutant: the exception thrown into the generator at its yield is taken
\* by the except clause, which emits an error event.
aclose_Caught(emitted) == Append(emitted, ErrorEvent)

\* The event generator is closed at the yield it is suspended at:
\* GeneratorExit (like asyncio's CancelledError) is no Exception, so no
\* except clause of the generator takes it and no code after the yield
\* runs.  The result is the events the generator has produced.
aclose(emitted) == emitted

\* The caller stops consuming the event stream after an event.  Once pc is
\* "done" the generator is still suspended when its last yield was the
\* error event or the done event of tts_stream; event_generator of
\* chat_stream has ended by then.
Disconnect ==
    /\ req.kind \in {"chat_stream", "tts_stream"}
    /\ response.status = 200
    /\ events # <<>>
    /\ \/ pc \notin {"idle", "done", "closed"}
       \/ /\ pc = "done"
          /\ \/ events[Len(events)].type = "error"
             \/ req.kind = "tts_stream" /\ events[Len(events)].type = "done"
    /\ pc' = "closed"
    /\ events' = aclose(events)
    /\ UNCHANGED <<othersAtRest, transcript, kokoro_pipeline, kokoro_pipeline_error,
                   ollama_available, fallback_question_index, req, submitted, input_check,
                   req_calls, response, gen, reply, buffer, pending, sentence_index,
                   skip_tts, saved>>

\* The handler has returned, or its event generator has ended or was
\* closed: the request and everything local to it are gone.
RequestEnds ==
    /\ pc \in {"done", "closed"}
    /\ pc' = "idle"
    /\ req' = [kind |-> None]
    /\ input_check' = [run |-> None]
    /\ req_calls' = <<>>
    /\ response' = [status |-> 0]
    /\ events' = <<>>
    /\ gen' = [phase |-> None]
    /\ reply' = <<>>
    /\ buffer' = <<>>
    /\ pending' = <<>>
    /\ sentence_index' = 0
    /\ skip_tts' = FALSE
    /\ saved' = <<>>
    /\ submitted' = <<>>
    /\ transcript' = [called |-> FALSE]
    /\ UNCHANGED <<othersAtRest, kokoro_pipeline, kokoro_pipeline_error,
                   ollama_available, fallback_question_index>>

Next ==
    \/ Receive
    \/ ValidateInputStep
    \/ Retrieve
    \/ ChatGenerate
    \/ ChatOutput
    \/ StreamStart
    \/ StreamRaises
    \/ StreamPull
    \/ SynthesizeSentence
    \/ FinalBuffer
    \/ ChatStreamDone
    \/ Record
    \/ Disconnect
    \/ RequestEnds

Spec == InitRouters /\ [][Next]_vars


(***************************************************************************)
(* Claims about the routers, checked under Spec.                           *)
(***************************************************************************)
\* The calls that retrieve context or ask a language model.
RetrievalAndGeneration ==
    {"search_context", "generate_response", "generate_response_stream",
     "ollama", "openai_chat", "ollama_stream", "openai_stream"}

\* validate_input rejects the message whatever the moderation backends say.
WouldReject(message) == FailingLocal(message) # {}

\* C1: for a request to /chat, /chat/stream or /voice/tts/stream whose
\* message validate_input would reject (an e-mail address, say), no
\* retrieval and no generation call is made.
C1_Original_NoRetrievalForRejectedInput ==
    (req.kind # None /\ WouldReject(req.message)) =>
      \A i \in DOMAIN req_calls : req_calls[i] \notin RetrievalAndGeneration

\* Text a language model generated has reached the client: as the reply of
\* /chat, as a text event of /chat/stream or narrated in an audio event.
AnswerDelivered ==
    \/ /\ req.kind = "chat"
       /\ response.status = 200
       /\ response.reply \notin {BLOCKED_INPUT_RESPONSE, SAFE_FALLBACK_RESPONSE}
    \/ \E i \in DOMAIN events :
         \/ events[i].type = "audio"
         \/ events[i].type = "text" /\ events[i].content # BLOCKED_INPUT_RESPONSE

\* C6: every answer delivered to a client was passed through
\* validate_output first.
C6_Original_DeliveredAnswersWereValidated ==
    AnswerDelivered => InSeq("validate_output", req_calls)

\* A /chat or /chat/stream request on an existing session ended after
\* validate_input rejected its message.
BlockedRequestEnded ==
    /\ pc = "done"
    /\ req.kind \in {"chat", "chat_stream"}
    /\ input_check.run # None
    /\ ~input_check.result.is_safe

\* C7: a request whose input is blocked is answered with HTTP 200 and the
\* fixed BLOCKED_INPUT_RESPONSE together with three fallback questions (as
\* one text event followed by a done event on /chat/stream), never with an
\* error.
C7_Original_BlockedInputIsAnswered ==
    BlockedRequestEnded =>
      /\ response.status = 200
      /\ IF req.kind = "chat"
         THEN /\ response.reply = BLOCKED_INPUT_RESPONSE
              /\ Len(response.followups) = 3
         ELSE /\ Len(events) = 2
              /\ events[1] = TextEvent(BLOCKED_INPUT_RESPONSE)
              /\ events[2].type = "done"
              /\ Len(events[2].followups) = 3


(***************************************************************************)
(* Claims about the event streams, checked under Spec.                     *)
(***************************************************************************)
VoiceOut == req.kind = "tts_stream"

\* The events of one type, in emission order.
AudioEvents == SelectSeq(events, LAMBDA e : e.type = "audio")
ErrorEvents(emitted) == SelectSeq(emitted, LAMBDA e : e.type = "error")

\* The sentences handed to synthesis, in call order, and those whose call
\* returned audio.
SubmittedSentences == [i \in DOMAIN submitted |-> submitted[i].sentence]
Narrated == SelectSeq(submitted, LAMBDA c : c.ret # "raise")

\* C11: in the voice-out stream a sentence whose local synthesis is
\* unavailable or fails is retried on the cloud TTS provider (and narrated
\* when that succeeds).
C11_Original_SentenceFallsBackToCloud ==
    \A i \in DOMAIN submitted :
      submitted[i].ret = "raise" => InSeq(CloudExecOp("tts"), req_calls)

\* C12: the index values of the audio events of a voice-out stream are
\* 0, 1, ..., n-1 in emission order, whatever number of syntheses failed in
\* between.
C12_AudioIndicesAreConsecutive ==
    \A k \in DOMAIN AudioEvents : AudioEvents[k].index = k - 1

\* Two audio events with a failed synthesis between them.
C12_Witness ==
    /\ VoiceOut
    /\ Len(AudioEvents) = 2
    /\ \E i, j, k \in DOMAIN submitted :
         /\ i < j /\ j < k
         /\ submitted[i].ret # "raise"
         /\ submitted[j].ret = "raise"
         /\ submitted[k].ret # "raise"

DonePositions == { i \in DOMAIN events : events[i].type = "done" }

\* C13: a stream holds at most one done event, no audio or text event
\* follows it, and in the voice-out stream its count is the number of audio
\* events emitted before it.
C13_DoneIsLastAndCounts ==
    /\ Cardinality(DonePositions) <= 1
    /\ \A i \in DonePositions :
         /\ \A j \in DOMAIN events :
              j > i => events[j].type \notin {"audio", "text"}
         /\ VoiceOut =>
              events[i].index =
                Cardinality({ j \in 1..(i - 1) : events[j].type = "audio" })

\* A voice-out stream closed by a done event that counts one audio event
\* although two sentences were submitted.
C13_Witness ==
    /\ VoiceOut
    /\ DonePositions # {}
    /\ events[Len(events)].type = "done"
    /\ events[Len(events)].index = 1
    /\ Len(submitted) = 2

\* C14: a stream ends with its first terminal event: nothing is emitted
\* after an error event or after a done event.
C14_Original_TerminalEventEndsStream ==
    \A i \in DOMAIN events :
      events[i].type \in {"done", "error"} => i = Len(events)

\* a occurs in b as a subsequence, from position i of a and j of b on.
RECURSIVE IsSubseqFrom(_, _, _, _)
IsSubseqFrom(a, i, b, j) ==
    IF i > Len(a) THEN TRUE
    ELSE IF j > Len(b) THEN FALSE
    ELSE IF a[i] = b[j] THEN IsSubseqFrom(a, i + 1, b, j + 1)
    ELSE IsSubseqFrom(a, i, b, j + 1)

\* C15: sentences are synthesized one after another in the order in which
\* they occur in the generated text, and the audio events are emitted in
\* that order: the k-th audio event carries the k-th sentence whose
\* synthesis returned.
C15_NarrationOrder ==
    /\ IsSubseqFrom(Flatten(SubmittedSentences), 1, reply, 1)
    /\ Len(AudioEvents) = Len(Narrated)
    /\ \A k \in DOMAIN AudioEvents :
         AudioEvents[k].content = Narrated[k].sentence

\* Two sentences that arrived in one chunk and a third were narrated.
C15_Witness ==
    /\ VoiceOut
    /\ Len(AudioEvents) = 3
    /\ AudioEvents[1].content = <<"Zebras graze", ".">>
    /\ AudioEvents[2].content = <<"Owls hoot", ".">>

\* A text without its whitespace.
NoSpace(text) == SelectSeq(text, LAMBDA c : ~IsSpace(c))

\* C16, on states: when the generated text of a voice-out stream has been
\* read to its end outside skip mode, all of it was submitted for
\* synthesis, failed syntheses or not; and a stream that ended without
\* error event ended with a done event.
C16_State ==
    /\ (VoiceOut /\ pc = "record" /\ ~skip_tts) =>
         NoSpace(Flatten(SubmittedSentences)) = NoSpace(reply)
    /\ (VoiceOut /\ pc = "done" /\ response.status = 200
        /\ ErrorEvents(events) = <<>>) =>
         /\ events # <<>>
         /\ events[Len(events)].type = "done"

\* C16, on steps: a synthesis step, failed or not, emits no error event
\* and does not end the stream.
C16_Step ==
    (pc \in {"synth", "final"}) =>
      /\ ErrorEvents(events') = ErrorEvents(events)
      /\ pc' # "done"

\* C16: a failed synthesis of one sentence produces no error event, the
\* later sentences are still submitted and the stream still ends with a
\* done event.
C16_SynthesisFailureIsNotFatal == [](C16_State) /\ [][C16_Step]_vars

\* A voice-out stream that ended with a done event after the synthesis of
\* its first sentence failed and a later one was narrated.
C16_Witness ==
    /\ VoiceOut
    /\ pc = "done"
    /\ Len(submitted) >= 2
    /\ submitted[1].ret = "raise"
    /\ submitted[2].ret # "raise"
    /\ events[Len(events)].type = "done"

\* The position of the follow-up header in a text, or 0.
MarkerAt(text) ==
    IF HasMarker(text)
    THEN CHOOSE i \in 1..(Len(text) - 1) :
           /\ text[i] = MARKER /\ text[i + 1] = "?"
           /\ \A j \in 1..(i - 1) : ~(text[j] = MARKER /\ text[j + 1] = "?")
    ELSE 0

\* The sentences of a text that precede the follow-up header: the complete
\* sentences that end before it, or, without header, every sentence and
\* the rest of the text.
SentencesBeforeMarker(text) ==
    IF HasMarker(text)
    THEN extract_sentences(SubSeq(text, 1, MarkerAt(text) - 1)).sentences
    ELSE LET found == extract_sentences(text)
         IN  found.sentences \o
               (IF strip(found.remaining) # <<>> THEN <<strip(found.remaining)>>
                ELSE <<>>)

\* The generated text came from one stream that was read to its end.
ReadOneStream ==
    /\ VoiceOut
    /\ pc = "record"
    /\ Cardinality({ i \in DOMAIN req_calls :
                       req_calls[i] \in {"ollama_stream", "openai_stream"} }) = 1

\* C19: whatever the chunks, a sentence is submitted to TTS if and only if
\* it precedes the follow-up header 'Want to explore more?'.
C19_Original_SubmittedIffBeforeMarker ==
    ReadOneStream => SubmittedSentences = SentencesBeforeMarker(reply)


(***************************************************************************)
(* SpecSentences: routers/voice.py extract_sentences fed a text of at most *)
(* MaxChars fragments chunk by chunk, every call on the remainder of the   *)
(* call before plus the next chunk, as generate_audio_stream does.         *)
(***************************************************************************)
MaxChars == 4

\* The fragments texts are made of: a word, sentence punctuation, a blank.
SentenceChars == {"a", ".", "?", " "}
FeedTexts == UNION { [1..n -> SentenceChars] : n \in 0..MaxChars }

InitSentences ==
    /\ feed_text \in FeedTexts
    /\ feed_left = feed_text
    /\ feed_buffer = <<>>
    /\ feed_sentences = <<>>
    /\ FollowupsAtRest
    /\ llm_provider = "unset"
    /\ CachesAtStart
    /\ SvcAtRest
    /\ GateAtRest
    /\ fallback_question_index = 0
    /\ ReqAtRest
    /\ AuxAtRest
    /\ LateAtRest

\* The next chunk arrives: buffer += chunk; sentences, buffer =
\* extract_sentences(buffer).
FeedChunk ==
    /\ feed_left # <<>>
    /\ \E n \in 1..Len(feed_left) :
         LET chunk == SubSeq(feed_left, 1, n)
             found == extract_sentences(feed_buffer \o chunk)
         IN  /\ feed_sentences' = feed_sentences \o found.sentences
             /\ feed_buffer' = found.remaining
             /\ feed_left' = SubSeq(feed_left, n + 1, Len(feed_left))
    /\ UNCHANGED <<feed_text, fu_response, fu_out, fu_prev, gateVars, llm_provider,
                   cacheVars, svcVars, fallback_question_index, reqVars,
                   auxVars, lateVars>>

NextSentences == FeedChunk

SpecSentences == InitSentences /\ [][NextSentences]_vars

\* The whole text has been fed.
AllFed == feed_left = <<>>

\* C17: for every text and every split of it into chunks, the sentences
\* returned by the successive calls of extract_sentences followed by the
\* final remainder are the original text, character for character.
C17_Original_LosslessReconstruction ==
    AllFed => Flatten(feed_sentences) \o feed_buffer = feed_text

\* C18: for every text and every split of it into chunks, the successive
\* calls of extract_sentences return the sentences that one call on the
\* whole text returns, in the same order.
C18_Original_ChunkingDoesNotMatter ==
    AllFed => feed_sentences = extract_sentences(feed_text).sentences


(***************************************************************************)
(* SpecFollowups: RAGService.extract_followup_questions called again and   *)
(* again in one process, on responses with and without follow-up section.  *)
(***************************************************************************)
Responses ==
    { <<>>,
      <<"Lions roar", ".">>,
      <<"Lions roar", ".", " ", MARKER, "?">>,
      <<"Lions roar", ".", "\n", MARKER, "?", "\n", "\n", "1", ".", " ", "Why", "?">>,
      <<"Lions roar", ".", "\n", MARKER, "?", "\n", "1", ".", "Why", "?">>,
      <<"Lions roar", ".", "\n", MARKER, "?", "\n", "1", ".", " ", " ">>,
      <<"Lions roar", ".", "\n", MARKER, "?", "\n", "1", ".", " ", "Why", "?">>,
      <<"Lions roar", ".", "\n", MARKER, "\n", "1", ".", " ", "Why">>,
      <<MARKER, "?", " ", "Ask", "\n", "1", ".", " ", "Why", "\n", "2", ".", " ",
        "How", "?", "?", "\n", "Bye">>,
      <<MARKER, "?", "\n", "1", ".", "\n", "2", ".", " ", "Why">>,
      <<MARKER, "\n", "1", ".", " ", " ", "\n", MARKER, "?", "\n", "1", "2", ".", " ", "?">>,
      <<"1", ".", " ", "Why", "?", "\n", MARKER, "?", "\n">> }

InitFollowups ==
    /\ fallback_question_index = 0
    /\ FollowupsAtRest
    /\ FeedAtRest
    /\ llm_provider = "unset"
    /\ CachesAtStart
    /\ SvcAtRest
    /\ GateAtRest
    /\ ReqAtRest
    /\ AuxAtRest
    /\ LateAtRest

\* One call; fu_prev keeps the questions of the latest call before it that
\* fell back to the pool.
ExtractFollowups ==
    /\ \E text \in Responses :
         LET r == extract_followup_questions(text, fallback_question_index)
         IN  /\ fu_response' = text
             /\ fu_out' = [called |-> TRUE, main |-> r.main,
                           questions |-> r.questions, extracted |-> r.extracted]
             /\ fallback_question_index' = r.index
    /\ fu_prev' = IF fu_out.called /\ ~fu_out.extracted
                  THEN [called |-> TRUE, questions |-> fu_out.questions]
                  ELSE fu_prev
    /\ UNCHANGED <<feed_text, feed_left, feed_buffer, feed_sentences, gateVars,
                   llm_provider, cacheVars, svcVars, reqVars, auxVars, lateVars>>

NextFollowups == ExtractFollowups

SpecFollowups == InitFollowups /\ [][NextFollowups]_vars

\* The questions of a result, as a set.
QuestionSet(questions) == { questions[i] : i \in DOMAIN questions }

MaxTasks == 2
MaxRotations == 11

RotTasks == 1..MaxTasks

\* Mutant: the calls run on preemptive threads.
MayRun_Preemptive(t, running) == TRUE

\* A coroutine runs on the event loop until it awaits: a task takes a step
\* when the loop runs it or runs nothing.
MayRun(t, running) == running = t \/ running = NoTask

TaskAtRest == [pc |-> "idle", left |-> 0, questions |-> <<>>, loaded |-> 0,
               result |-> <<>>]

InitRotation ==
    /\ rot_tasks = [t \in RotTasks |-> TaskAtRest]
    /\ rot_running = NoTask
    /\ rot_done = 0
    /\ fallback_question_index = 0
    /\ llm_provider = "unset"
    /\ CachesAtStart
    /\ SvcAtRest
    /\ GateAtRest
    /\ ReqAtRest
    /\ FeedAtRest
    /\ FollowupsAtRest
    /\ RetrievalAtRest
    /\ TimerAtRest
    /\ LateAtRest

RotationOthers == <<gateVars, llm_provider, cacheVars, svcVars, reqVars, pureVars,
                    sc_file, sc_images, sc_rows, sc_out, tm_in, tm_timed, tm_plain, lateVars>>

CallsStarted == rot_done + Cardinality({t \in RotTasks : rot_tasks[t].pc # "idle"})

\* A request task enters get_fallback_questions(3): questions = []
RotCall(t) ==
    /\ rot_tasks[t].pc = "idle"
    /\ MayRun(t, rot_running)
    /\ CallsStarted < MaxRotations
    /\ rot_tasks' = [rot_tasks EXCEPT ![t] =
                       [@ EXCEPT !.pc = "append", !.left = 3, !.questions = <<>>]]
    /\ rot_running' = t
    /\ UNCHANGED <<rot_done, fallback_question_index, RotationOthers>>

\* questions.append(FALLBACK_FOLLOWUP_QUESTIONS[_fallback_question_index])
RotAppend(t) ==
    /\ rot_tasks[t].pc = "append"
    /\ MayRun(t, rot_running)
    /\ rot_tasks' = [rot_tasks EXCEPT ![t] =
                       [@ EXCEPT !.pc = "load",
                                 !.questions = Append(@, fallback_question_index)]]
    /\ UNCHANGED <<rot_running, rot_done, fallback_question_index, RotationOthers>>

\* the right-hand side of the assignment reads _fallback_question_index
RotLoad(t) ==
    /\ rot_tasks[t].pc = "load"
    /\ MayRun(t, rot_running)
    /\ rot_tasks' = [rot_tasks EXCEPT ![t] =
                       [@ EXCEPT !.pc = "store", !.loaded = fallback_question_index]]
    /\ UNCHANGED <<rot_running, rot_done, fallback_question_index, RotationOthers>>

\* _fallback_question_index = (... + 1) % pool_size; next turn of the loop
RotStore(t) ==
    /\ rot_tasks[t].pc = "store"
    /\ MayRun(t, rot_running)
    /\ fallback_question_index' = (rot_tasks[t].loaded + 1) % FALLBACK_POOL_SIZE
    /\ rot_tasks' = [rot_tasks EXCEPT ![t] =
                       [@ EXCEPT !.pc = IF rot_tasks[t].left = 1 THEN "return"
                                        ELSE "append",
                                 !.left = @ - 1]]
    /\ UNCHANGED <<rot_running, rot_done, RotationOthers>>

\* return questions; the caller goes on and the loop is free again once
\* the caller awaits or ends
RotReturn(t) ==
    /\ rot_tasks[t].pc = "return"
    /\ MayRun(t, rot_running)
    /\ rot_tasks' = [rot_tasks EXCEPT ![t] =
                       [@ EXCEPT !.pc = "idle", !.result = rot_tasks[t].questions]]
    /\ rot_running' = NoTask
    /\ rot_done' = rot_done + 1
    /\ UNCHANGED <<fallback_question_index, RotationOthers>>

NextRotation ==
    \E t \in RotTasks :
        \/ RotCall(t)
        \/ RotAppend(t)
        \/ RotLoad(t)
        \/ RotStore(t)
        \/ RotReturn(t)

SpecRotation == InitRotation /\ [][NextRotation]_vars

\* 3 entries of the pool that follow one another cyclically.
CyclicallyConsecutive(questions) ==
    /\ Len(questions) = 3
    /\ \A i \in 1..3 : questions[i] = (questions[1] + i - 1) % FALLBACK_POOL_SIZE

NoCallInProgress == \A t \in RotTasks : rot_tasks[t].pc = "idle"

\* C21: when several requests call get_fallback_questions(3), no update of
\* the shared index is lost: once m calls have returned and none is in
\* progress the index is 3*m modulo the pool size, and every call has
\* returned 3 cyclically consecutive pool entries.
C21_NoRotationIsLost ==
    /\ NoCallInProgress =>
         fallback_question_index = (3 * rot_done) % FALLBACK_POOL_SIZE
    /\ \A t \in RotTasks :
         rot_tasks[t].result # <<>> => CyclicallyConsecutive(rot_tasks[t].result)

\* Every task has made a call, and the index has wrapped around the pool.
C21_Witness ==
    /\ NoCallInProgress
    /\ \A t \in RotTasks : rot_tasks[t].result # <<>>
    /\ rot_done > FALLBACK_POOL_SIZE \div 3


(***************************************************************************)
(* SpecRetrieval: RAGService.search_context over the rows a search         *)
(* returned and over what animal_images.json holds.  Distances are counted *)
(* in tenths; a confidence is the exact fraction num / den.                *)
(***************************************************************************)
MaxRows == 3

\* metadata of a row: None (or not a dict), or a dict naming the animal.
RowMetadata == {"none", "Lion"}
NoDistance == 99
\* row["_distance"], in tenths; NoDistance: the row has no "_distance".
DistanceTenths == {-5, 1, 2, 3, 15, NoDistance}
RowTexts == {"Lions roar."}
Rows == [metadata : RowMetadata, distance : DistanceTenths, text : RowTexts]
SearchResults == UNION { [1..n -> Rows] : n \in 0..MaxRows }

\* What json.load returns for the file: its type, and what it holds for
\* "Lion" (a dict as expected, a string instead, or nothing).
ParsedData ==
    { [kind |-> "dict", lion |-> "absent"],
      [kind |-> "dict", lion |-> "dict"],
      [kind |-> "dict", lion |-> "str"],
      [kind |-> "list", lion |-> "str"],
      [kind |-> "number", lion |-> "absent"],
      [kind |-> None, lion |-> "absent"] }
ImageFiles ==
    { [state |-> "missing", kind |-> None, lion |-> "absent"],
      [state |-> "unparsable", kind |-> None, lion |-> "absent"] }
    \cup { [state |-> "parsed", kind |-> d.kind, lion |-> d.lion] : d \in ParsedData }

EmptyDict == [kind |-> "dict", lion |-> "absent"]
NotLoaded == [kind |-> None, lion |-> "absent"]

\* RAGService.animal_images: the cached value, loaded on first use.
animal_images(cached, file) ==
    IF cached.kind # None THEN [cached |-> cached, raised |-> None]
    ELSE IF file.state = "missing" THEN [cached |-> EmptyDict, raised |-> None]
    ELSE IF file.state = "unparsable" THEN [cached |-> EmptyDict, raised |-> None]
    ELSE [cached |-> [kind |-> file.kind, lion |-> file.lion],
          \* len(self._animal_images) in the log line
          raised |-> IF file.kind \in {"number", None} THEN "TypeError" ELSE None]

\* animal_name in self.animal_images
Contains(data, animal_name) ==
    IF data.kind = "number" THEN [raised |-> "TypeError", found |-> FALSE]
    ELSE [raised |-> None, found |-> animal_name = "Lion" /\ data.lion # "absent"]

\* self.animal_images[animal_name] and the three .get() on it
ImageData(data) ==
    IF data.kind # "dict" THEN [raised |-> "TypeError"]
    ELSE IF data.lion # "dict" THEN [raised |-> "AttributeError"]
    ELSE [raised |-> None]

AnimalName(row) == IF row.metadata = "Lion" THEN "Lion" ELSE "Unknown"

\* The loop over the rows, from row i on.
RECURSIVE ScanRows(_, _, _, _, _)
ScanRows(rows, i, cached, file, acc) ==
    IF i > Len(rows) THEN [raised |-> None, cached |-> cached, sources |-> acc.sources,
                           distances |-> acc.distances, contexts |-> acc.contexts]
    ELSE
      LET row == rows[i]
          animal_name == AnimalName(row)
          images == animal_images(cached, file)
          has == Contains(images.cached, animal_name)
          data == ImageData(images.cached)
          failure == IF images.raised # None THEN images.raised
                     ELSE IF has.raised # None THEN has.raised
                     ELSE IF has.found THEN data.raised
                     ELSE None
          source == [animal |-> animal_name, enriched |-> has.found]
      IN  IF failure # None
          THEN [raised |-> failure, cached |-> images.cached, sources |-> <<>>,
                distances |-> <<>>, contexts |-> <<>>]
          ELSE ScanRows(rows, i + 1, images.cached, file,
                        [sources |-> Append(acc.sources, source),
                         distances |-> IF row.distance = NoDistance THEN acc.distances
                                       ELSE Append(acc.distances, row.distance),
                         contexts |-> Append(acc.contexts,
                                             <<"[About: ", animal_name, "]\n", row.text>>)])

RECURSIVE Sum(_)
Sum(numbers) == IF numbers = <<>> THEN 0 ELSE Head(numbers) + Sum(Tail(numbers))

Max(a, b) == IF a >= b THEN a ELSE b
Min(a, b) == IF a <= b THEN a ELSE b

\* Mutant: the confidence is not clamped.
Confidence_Unclamped(distances) ==
    IF distances = <<>> THEN [num |-> 0, den |-> 1]
    ELSE [num |-> 10 * Len(distances) - Sum(distances), den |-> 10 * Len(distances)]

\* avg_distance = sum(distances) / len(distances) if distances else 1.0
\* confidence = max(0.0, min(1.0, 1.0 - avg_distance))
Confidence(distances) ==
    IF distances = <<>> THEN [num |-> Max(0, Min(1, 1 - 1)), den |-> 1]
    ELSE LET den == 10 * Len(distances)
         IN  [num |-> Max(0, Min(den, den - Sum(distances))), den |-> den]

\* "\n\n---\n\n".join(contexts)
RECURSIVE Join(_)
Join(contexts) ==
    IF contexts = <<>> THEN <<>>
    ELSE IF Len(contexts) = 1 THEN contexts[1]
    ELSE contexts[1] \o <<"\n\n---\n\n">> \o Join(Tail(contexts))

search_context(rows, cached, file) ==
    LET scan == ScanRows(rows, 1, cached, file,
                         [sources |-> <<>>, distances |-> <<>>, contexts |-> <<>>])
    IN  IF scan.raised # None
        THEN [raised |-> scan.raised, cached |-> scan.cached, context |-> <<>>,
              sources |-> <<>>, confidence |-> [num |-> 0, den |-> 1]]
        ELSE [raised |-> None, cached |-> scan.cached, context |-> Join(scan.contexts),
              sources |-> scan.sources, confidence |-> Confidence(scan.distances)]

InitRetrieval ==
    /\ sc_file \in ImageFiles
    /\ sc_images = NotLoaded
    /\ sc_rows \in SearchResults
    /\ sc_out = [called |-> FALSE]
    /\ RotationAtRest
    /\ TimerAtRest
    /\ LateAtRest
    /\ fallback_question_index = 0
    /\ llm_provider = "unset"
    /\ CachesAtStart
    /\ SvcAtRest
    /\ GateAtRest
    /\ ReqAtRest
    /\ FeedAtRest
    /\ FollowupsAtRest

\* One call of search_context, the first of the process or a later one; the
\* search returns sc_rows.
SearchContext ==
    /\ LET r == search_context(sc_rows, sc_images, sc_file)
       IN  /\ sc_images' = r.cached
           /\ sc_out' = [called |-> TRUE, raised |-> r.raised, context |-> r.context,
                         sources |-> r.sources, confidence |-> r.confidence]
    /\ UNCHANGED <<sc_file, sc_rows, rot_tasks, rot_running, rot_done, tm_in, tm_timed,
                   tm_plain, lateVars, gateVars, llm_provider, cacheVars, svcVars,
                   fallback_question_index, reqVars, pureVars>>

NextRetrieval == SearchContext

SpecRetrieval == InitRetrieval /\ [][NextRetrieval]_vars

\* The distances of the rows that carry one.
DistancesOf(rows) ==
    LET kept == { i \in DOMAIN rows : rows[i].distance # NoDistance }
        RECURSIVE Pick(_)
        Pick(i) == IF i > Len(rows) THEN <<>>
                   ELSE IF i \in kept THEN <<rows[i].distance>> \o Pick(i + 1)
                   ELSE Pick(i + 1)
    IN  Pick(1)

EnrichmentDataFailed(file) ==
    \/ file.state \in {"missing", "unparsable"}
    \/ file.state = "parsed" /\ ~(file.kind = "dict" /\ file.lion \in {"absent", "dict"})

\* C23: a failure of the enrichment data (file missing, not parsable, or
\* parsed data not of the expected shape) never makes search_context
\* raise: it returns the passages and their sources without enrichment.
C23_Original_EnrichmentFailureNeverRaises ==
    (sc_out.called /\ EnrichmentDataFailed(sc_file)) =>
      /\ sc_out.raised = None
      /\ Len(sc_out.sources) = Len(sc_rows)
      /\ \A i \in DOMAIN sc_out.sources : ~sc_out.sources[i].enriched


(***************************************************************************)
(* SpecEndpoints: the three handlers of Spec and POST /voice/stt.          *)
(***************************************************************************)
\* What the upload of a request is: no file, a file of no bytes, or bytes
\* of a recognised or of no recognised audio format.
AudioUploads == {"no_file", "empty"} \cup AudioFormats

BadRequest(code) == Response(400, <<code>>, <<>>)
TranscriptionFailed == Response(500, <<"TRANSCRIPTION_FAILED">>, <<>>)

\* speech_to_text up to the call of the STT service: the session lookup
\* and the checks of the upload.
ReceiveAudio ==
    /\ pc = "idle"
    /\ \E session_id \in SessionIds, upload \in AudioUploads :
         /\ req' = [kind |-> "stt", session_id |-> session_id, message |-> <<>>,
                    audio |-> upload]
         /\ req_calls' = <<"get_session">>
         /\ IF get_session(session_id) = None
            THEN response' = NotFound /\ pc' = "done"
            ELSE IF upload = "no_file"
            THEN response' = BadRequest("INVALID_AUDIO") /\ pc' = "done"
            ELSE IF upload = "empty"
            THEN response' = BadRequest("EMPTY_AUDIO") /\ pc' = "done"
            ELSE response' = [status |-> 0] /\ pc' = "transcribe"
    /\ input_check' = [run |-> None]
    /\ events' = <<>>
    /\ gen' = [phase |-> None]
    /\ reply' = <<>>
    /\ buffer' = <<>>
    /\ pending' = <<>>
    /\ sentence_index' = 0
    /\ skip_tts' = FALSE
    /\ saved' = <<>>
    /\ submitted' = <<>>
    /\ transcript' = [called |-> FALSE]
    /\ UNCHANGED <<gateVars, llm_provider, cacheVars, svcVars, pureVars, auxVars, lateVars,
                   fallback_question_index>>

\* speech_to_text: STTService.transcribe inside try / except, and the
\* response.
TranscribeAudio ==
    /\ pc = "transcribe"
    /\ \E init \in InitOutcomes, local \in ExecOutcomes, cloud \in ExecOutcomes :
         LET r == STTService_transcribe(stt_model, stt_model_error, req.audio,
                                        init, local, cloud)
         IN  /\ stt_model' = r.model
             /\ stt_model_error' = r.error
             /\ transcript' = [called |-> TRUE, ret |-> r.ret, trace |-> r.trace]
             /\ req_calls' = req_calls \o <<"transcribe">> \o r.trace
             /\ response' = IF r.ret = "raise" THEN TranscriptionFailed
                            ELSE Response(200, <<r.ret>>, <<>>)
    /\ pc' = "done"
    /\ UNCHANGED <<gateVars, llm_provider, svcVars, pureVars, auxVars, lateVars,
                   kokoro_pipeline, kokoro_pipeline_error, ollama_available,
                   fallback_question_index, req, input_check, events, gen, reply,
                   buffer, pending, sentence_index, skip_tts, saved, submitted>>

NextEndpoints ==
    \/ Next
    \/ ReceiveAudio
    \/ TranscribeAudio

SpecEndpoints == InitRouters /\ [][NextEndpoints]_vars

\* The request has ended, and its generation failed on the cloud provider
\* after the local provider failed or could not be used.
GenerationFailed == pc = "done" /\ gen.phase = "failed"

\* The request has ended, and transcribe raised: the local model failed or
\* could not be used and the cloud API failed.
TranscribeRaised ==
    /\ pc = "done"
    /\ req.kind = "stt"
    /\ transcript.called
    /\ transcript.ret = "raise"

\* C24: when both generation providers fail for a request, the chat stream
\* and the voice-out stream end with an error event and emit no done
\* event, and POST /chat answers with a server error; when both STT
\* providers fail, POST /voice/stt answers 500 TRANSCRIPTION_FAILED.
C24_ProviderFailureSurfaces ==
    /\ GenerationFailed =>
         IF req.kind = "chat"
         THEN response.status = 500
         ELSE /\ response = EventSourceResponse
              /\ events # <<>>
              /\ events[Len(events)] = ErrorEvent
              /\ \A i \in DOMAIN events : events[i].type # "done"
    /\ TranscribeRaised => response = TranscriptionFailed

\* The voice-out stream had emitted audio when the local stream broke and
\* the cloud stream could not be opened.
C24_Witness ==
    /\ GenerationFailed
    /\ req.kind = "tts_stream"
    /\ Len(events) > 1
    /\ "ollama_stream" \in { req_calls[i] : i \in DOMAIN req_calls }


(***************************************************************************)
(* The end of a turn: analytics and the session store.                     *)
(***************************************************************************)
LastCall == IF req_calls = <<>> THEN None ELSE req_calls[Len(req_calls)]

\* The request has ended and record_interaction was the last call it
\* made: in chat and chat_stream the call raised (save_message follows it
\* otherwise); in tts_stream it raised or it was the last call of a
\* stream that went on to its done event.
EndedAtAnalytics == pc = "done" /\ LastCall = "record_interaction"

\* C25: a failure of the analytics sink while recording a completed turn
\* does not change what the caller receives: POST /chat still returns the
\* generated reply, and the chat stream and the voice-out stream still end
\* with a done event and emit no error event.
C25_Original_AnalyticsFailureIsInvisible ==
    EndedAtAnalytics =>
      IF req.kind = "chat"
      THEN response = Response(200, reply, <<>>)
      ELSE /\ events # <<>>
           /\ events[Len(events)].type = "done"
           /\ ErrorEvents(events) = <<>>

TextTurn == req.kind \in {"chat", "chat_stream"}

TurnRejected == input_check.run # None /\ ~input_check.result.is_safe
OutputBlocked == req.kind = "chat" /\ response.reply = SAFE_FALLBACK_RESPONSE
TurnFailed == response.status = 500 \/ ErrorEvents(events) # <<>>

\* The two entries of a turn.
TurnEntries ==
    <<[role |-> "user", content |-> req.message],
      [role |-> "assistant", content |-> reply]>>

\* C26: a turn of POST /chat or POST /chat/stream appends to the session
\* store exactly two entries, the user message and then the assistant
\* answer, and only after generation has completed successfully; a turn
\* that is rejected by the Safety Gate, whose output is blocked, or that
\* ends with an error appends nothing.
C26_Original_TurnAppendsTwoOrNothing ==
    (TextTurn /\ pc = "done" /\ response.status # 404) =>
      IF TurnRejected \/ OutputBlocked \/ TurnFailed
      THEN saved = <<>>
      ELSE saved = TurnEntries


(***************************************************************************)
(* SpecTimer: POST /chat and POST /voice/tts handled twice for the same    *)
(* request and the same behaviour of every collaborator, once as written   *)
(* and once with a RequestTimer that records nothing.                      *)
(***************************************************************************)
\* What int((perf_counter() - start) * 1000) can be.
ElapsedMs == {0, 12}
\* dict.get(name) of a component that was not timed
NoTiming == -1

\* RequestTimer.__init__
RequestTimer(timed) ==
    [timed |-> timed, rag |-> NoTiming, llm |-> NoTiming, tts |-> NoTiming]

\* RequestTimer.component: try: yield / finally: component_timings[name] =
\* elapsed_ms; an exception of the body passes through.
RequestTimer_component(timer, name, elapsed_ms, body) ==
    [timer |-> IF timer.timed THEN [timer EXCEPT ![name] = elapsed_ms] ELSE timer,
     raised |-> body = "raise"]

\* RequestTimer.end
RequestTimer_end(timer, elapsed_ms) == IF timer.timed THEN elapsed_ms ELSE NoTiming

\* RequestTimer.get_timings
RequestTimer_get_timings(timer, elapsed_ms) ==
    [rag_ms |-> timer.rag, llm_ms |-> timer.llm, tts_ms |-> timer.tts,
     total_ms |-> RequestTimer_end(timer, elapsed_ms)]

GateOutcomes == {"pass", "block"}
ChatInputs ==
    [kind : {"chat"}, session_id : SessionIds, message : {<<"lions">>},
     gate : GateOutcomes, search : ExecOutcomes, generate : ExecOutcomes,
     output : GateOutcomes, record : ExecOutcomes, save_user : ExecOutcomes,
     save_assistant : ExecOutcomes, rag_ms : ElapsedMs, llm_ms : ElapsedMs,
     total_ms : ElapsedMs]
SpeechInputs ==
    [kind : {"tts"}, session_id : SessionIds, message : {<<>>, <<"lions">>},
     init : InitOutcomes, local : ExecOutcomes, cloud : ExecOutcomes,
     record : ExecOutcomes, tts_ms : ElapsedMs]

\* What a handler run did: the response, the retrieval and provider calls,
\* the session store entries and the analytics writes.
Outcome(resp, provider_calls, entries, analytics) ==
    [called |-> TRUE, response |-> resp, providers |-> provider_calls,
     saved |-> entries, analytics |-> analytics]

\* chat (routers/chat.py) with a RequestTimer that records (timed) or not.
chat(in, timed) ==
    LET timer == RequestTimer(timed)
        rag == RequestTimer_component(timer, "rag", in.rag_ms, in.search)
        llm == RequestTimer_component(rag.timer, "llm", in.llm_ms, in.generate)
        answer == Flatten(AnswerPlain)
        timings == RequestTimer_get_timings(llm.timer, in.total_ms)
        row == [latency_ms |-> RequestTimer_end(llm.timer, in.total_ms),
                rag_latency_ms |-> timings.rag_ms, llm_latency_ms |-> timings.llm_ms,
                tts_latency_ms |-> NoTiming]
        user == [role |-> "user", content |-> in.message]
        assistant == [role |-> "assistant", content |-> answer]
    IN  IF get_session(in.session_id) = None
        THEN Outcome(NotFound, <<>>, <<>>, <<>>)
        ELSE IF in.gate = "block"
        THEN IF "log_blocked_message" \notin SessionServiceMethods
             THEN Outcome(ServerError, <<>>, <<>>, <<>>)
             ELSE Outcome(Response(200, BLOCKED_INPUT_RESPONSE,
                                   get_fallback_questions(0, 3).questions),
                          <<>>, <<>>, <<>>)
        ELSE IF rag.raised
        THEN Outcome(ServerError, <<"search_context">>, <<>>, <<>>)
        ELSE IF llm.raised
        THEN Outcome(ServerError, <<"search_context", "generate_response">>, <<>>, <<>>)
        ELSE IF in.output = "block"
        THEN Outcome(Response(200, SAFE_FALLBACK_RESPONSE,
                              get_fallback_questions(0, 3).questions),
                     <<"search_context", "generate_response">>, <<>>, <<>>)
        ELSE IF in.record = "raise"
        THEN Outcome(ServerError, <<"search_context", "generate_response">>, <<>>, <<>>)
        ELSE IF in.save_user = "raise"
        THEN Outcome(ServerError, <<"search_context", "generate_response">>, <<>>,
                     <<row>>)
        ELSE IF in.save_assistant = "raise"
        THEN Outcome(ServerError, <<"search_context", "generate_response">>, <<user>>,
                     <<row>>)
        ELSE Outcome(Response(200, answer, <<>>),
                     <<"search_context", "generate_response">>, <<user, assistant>>,
                     <<row>>)

\* text_to_speech (routers/voice.py) with a RequestTimer that records
\* (timed) or not.
text_to_speech(in, timed) ==
    LET timer == RequestTimer(timed)
        speech == TTSService_synthesize(None, None, in.init, in.local, in.cloud)
        tts == RequestTimer_component(timer, "tts", in.tts_ms, speech.ret)
        tts_ms == tts.timer.tts
        row == [latency_ms |-> NoTiming, rag_latency_ms |-> NoTiming,
                llm_latency_ms |-> NoTiming, tts_latency_ms |-> tts_ms]
    IN  IF get_session(in.session_id) = None
        THEN Outcome(NotFound, <<>>, <<>>, <<>>)
        ELSE IF in.message = <<>>
        THEN Outcome(BadRequest("EMPTY_TEXT"), <<>>, <<>>, <<>>)
        ELSE IF tts.raised
        THEN Outcome(Response(500, <<"SYNTHESIS_FAILED">>, <<>>), speech.trace,
                     <<>>, <<>>)
        \* if tts_ms: _analytics_service.update_tts_latency(...)
        ELSE IF tts_ms \notin {NoTiming, 0}
        THEN IF in.record = "raise"
             THEN Outcome(ServerError, speech.trace, <<>>, <<>>)
             ELSE Outcome(Response(200, <<speech.ret>>, <<>>), speech.trace, <<>>,
                          <<row>>)
        ELSE Outcome(Response(200, <<speech.ret>>, <<>>), speech.trace, <<>>, <<>>)

Handle(in, timed) == IF in.kind = "chat" THEN chat(in, timed)
                     ELSE text_to_speech(in, timed)

InitTimer ==
    /\ tm_in \in ChatInputs \cup SpeechInputs
    /\ tm_timed = [called |-> FALSE]
    /\ tm_plain = [called |-> FALSE]
    /\ RotationAtRest
    /\ RetrievalAtRest
    /\ LateAtRest
    /\ fallback_question_index = 0
    /\ llm_provider = "unset"
    /\ CachesAtStart
    /\ SvcAtRest
    /\ GateAtRest
    /\ ReqAtRest
    /\ FeedAtRest
    /\ FollowupsAtRest

TimerOthers == <<lateVars, rot_tasks, rot_running, rot_done, sc_file, sc_images, sc_rows, sc_out,
                 gateVars, llm_provider, cacheVars, svcVars, fallback_question_index,
                 reqVars, pureVars>>

\* The handler as written.
RunTimed ==
    /\ ~tm_timed.called
    /\ tm_timed' = Handle(tm_in, TRUE)
    /\ UNCHANGED <<tm_in, tm_plain, TimerOthers>>

\* The handler with the RequestTimer calls left out.
RunPlain ==
    /\ ~tm_plain.called
    /\ tm_plain' = Handle(tm_in, FALSE)
    /\ UNCHANGED <<tm_in, tm_timed, TimerOthers>>

NextTimer == RunTimed \/ RunPlain

SpecTimer == InitTimer /\ [][NextTimer]_vars

\* C27: the request timer does not influence the pipeline: for every
\* request the response delivered to the caller, the calls made to
\* providers and the entries written to the session store are the same
\* with and without the RequestTimer calls.
C27_Original_TimerDoesNotInfluence ==
    (tm_timed.called /\ tm_plain.called) =>
      /\ tm_timed.response = tm_plain.response
      /\ tm_timed.providers = tm_plain.providers
      /\ tm_timed.saved = tm_plain.saved


(***************************************************************************)
(* Attempts made by one service call (SpecDispatch).                       *)
(***************************************************************************)
\* How often op occurs in trace.
Occurrences(op, trace) == Cardinality({ i \in DOMAIN trace : trace[i] = op })

\* C28: one call of transcribe, generate or synthesize makes at most one
\* attempt on the local provider and at most one attempt on the cloud
\* provider, the cloud attempt being its last step, and then returns or
\* raises; no provider is tried twice.
C28_AtMostOneAttemptPerProvider ==
    Called =>
      /\ Occurrences(ProbeOp(svc_last.cap), svc_last.trace) <= 1
      /\ Occurrences(LocalExecOp(svc_last.cap), svc_last.trace) <= 1
      /\ Occurrences(CloudExecOp(svc_last.cap), svc_last.trace) <= 1
      /\ \A i \in DOMAIN svc_last.trace :
           svc_last.trace[i] = CloudExecOp(svc_last.cap) => i = Len(svc_last.trace)
      /\ \A i \in DOMAIN svc_last.trace :
           svc_last.trace[i] \in LocalOps(svc_last.cap) \cup {CloudExecOp(svc_last.cap)}

\* A transcribe call that loaded the model, ran it, and went on to the
\* cloud API when the run raised.
C28_Witness ==
    /\ Called
    /\ svc_last.cap = "stt"
    /\ svc_last.trace = <<"init_whisper", "whisper", "openai_whisper">>
    /\ svc_last.ret = "raise"


(***************************************************************************)
(* The pipelining of the voice-out stream (Spec).                          *)
(***************************************************************************)
\* The generation stream is open.
StreamOpen == gen.phase \in {"ollama", "openai"}

\* Every call of retrieval in calls stands before every call of
\* generate_response_stream.
RetrievalBeforeGeneration(calls) ==
    /\ InSeq("search_context", calls)
    /\ \A i, j \in DOMAIN calls :
         calls[i] = "search_context" /\ calls[j] = "generate_response_stream"
           => i < j

\* One step of tts_stream while extracted sentences wait and the caller
\* keeps consuming: the stream is left alone and the first waiting sentence
\* is synthesized; when the synthesis returned, its audio event is emitted
\* in the same step.
SentenceBeforeNextFragment ==
    (req.kind = "tts_stream" /\ pending # <<>> /\ pc # "closed" /\ pc' # "closed") =>
      /\ gen' = gen
      /\ reply' = reply
      /\ pending' = Tail(pending)
      /\ Len(submitted') = Len(submitted) + 1
      /\ submitted'[Len(submitted')].sentence = Head(pending)
      /\ IF submitted'[Len(submitted')].ret = "raise"
         THEN events' = events
         ELSE events' = Append(events, AudioEvent(Head(pending), sentence_index))

\* C29: in the voice-out stream the sentences completed by a fragment are
\* synthesized and their audio events emitted before the next fragment is
\* requested from the generation stream, and the generation stream is
\* opened only after retrieval has completed.
C29_AudioBeforeNextFragment ==
    /\ []((req.kind = "tts_stream" /\ StreamOpen)
            => RetrievalBeforeGeneration(req_calls))
    /\ [][SentenceBeforeNextFragment]_vars

\* An audio event has been emitted while the generation stream still has
\* fragments to deliver.
C29_Witness ==
    /\ req.kind = "tts_stream"
    /\ pc = "stream"
    /\ StreamOpen
    /\ gen.left # <<>>
    /\ AudioEvents # <<>>


(***************************************************************************)
(* What generate_response_stream has delivered (Spec).                     *)
(***************************************************************************)
\* text is what the first fragments of one provider response add up to.
FragmentsOfOneResponse(text) ==
    \E answer \in Answers : \E k \in 0..Len(answer) :
      text = Flatten(SubSeq(answer, 1, k))

\* C30 as stated: the fragments a streaming handler has received from
\* generate_response_stream are fragments of exactly one provider
\* response, also when the local stream failed after producing some.
C30_Original_OneProviderResponse ==
    (req.kind \in {"chat_stream", "tts_stream"} /\ StreamOpen)
      => FragmentsOfOneResponse(reply)


(***************************************************************************)
(* SpecPrompt: what a handler passes to generation and what generation     *)
(* sends to the provider.  Texts are sequences of pieces; a piece of a     *)
(* template in braces is a replacement field of str.format.                *)
(***************************************************************************)
\* Stored turns of the session before the request.
MaxStored == 2

\* DynamicConfig.system_prompt, in this order: the built-in configuration
\* used while no config file exists, the accessor's default, the template
\* the admin API writes as its default, and two templates an operator
\* could save.
Templates ==
    { <<"You are Zoocari the Elephant, a helpful assistant.">>,
      <<"You are Zoocari the Elephant.">>,
      <<"You are Zoocari the Elephant, the friendly animal expert.",
        "ONLY answer questions using information from the CONTEXT provided">>,
      <<"Answer from this context:", "{context}">>,
      <<"Answer as", "{name}", "from", "{context}">> }

\* template.format(context=context): every {context} field is replaced;
\* a field of another name raises KeyError.
format(template, context) ==
    IF \E i \in DOMAIN template : template[i] = "{name}"
    THEN [ret |-> "raise", text |-> <<>>]
    ELSE [ret |-> "ok",
          text |-> Flatten([i \in DOMAIN template |->
                              IF template[i] = "{context}" THEN context
                              ELSE <<template[i]>>])]

\* search_context's first result: the joined texts of the rows found.
Contexts == {<<>>, <<"Lions live in prides.">>,
             <<"Lions live in prides.", "\n\n---\n\n", "Zebras graze.">>}

\* The chat_history rows of a session, ORDER BY id ASC.
StoredTurns(n) ==
    LET contents == <<"Do zebras graze?", "Zebras graze.", "Do owls hoot?", "Owls hoot.">>
    IN  [i \in 1..n |-> [role |-> IF i % 2 = 1 THEN "user" ELSE "assistant",
                         content |-> <<contents[((i - 1) % 4) + 1]>>]]

\* chat, event_generator, generate_audio_stream:
\* messages = [{"role": "user", "content": body.message}]
BuildMessages(stored, message) == <<[role |-> "user", content |-> message]>>

\* generate_response / generate_response_stream up to the provider call:
\* the system prompt is formatted and put before the caller's messages in
\* a new list; the caller's list is not touched.
messages_with_context(template, messages, context) ==
    LET system_prompt == format(template, context)
    IN  IF system_prompt.ret = "raise"
        THEN [ret |-> "raise", sent |-> <<>>, messages |-> messages]
        ELSE [ret |-> "ok",
              sent |-> <<[role |-> "system", content |-> system_prompt.text]>>
                         \o messages,
              messages |-> messages]

InitPrompt ==
    /\ pr_in \in [kind : Kinds, message : Messages, stored : 0..MaxStored,
                  template : Templates, context : Contexts]
    /\ pr_out = [called |-> FALSE]
    /\ ConfigAtRest
    /\ AuxAtRest
    /\ ReqAtRest
    /\ GateAtRest
    /\ SvcAtRest
    /\ FeedAtRest
    /\ FollowupsAtRest
    /\ CachesAtStart
    /\ fallback_question_index = 0
    /\ llm_provider = "unset"

\* One handler builds its history and calls generation.
GenerationCall ==
    /\ ~pr_out.called
    /\ LET messages == BuildMessages(StoredTurns(pr_in.stored), pr_in.message)
           call == messages_with_context(pr_in.template, messages, pr_in.context)
       IN  pr_out' = [called |-> TRUE, history |-> messages, ret |-> call.ret,
                      sent |-> call.sent, after |-> call.messages]
    /\ UNCHANGED <<pr_in, cfg, cfg_file, cfg_now, gateVars, llm_provider, cacheVars,
                   svcVars, fallback_question_index, reqVars, pureVars, auxVars>>

NextPrompt == GenerationCall
SpecPrompt == InitPrompt /\ [][NextPrompt]_vars

\* part occurs in text as a run of consecutive pieces.
HasText(text, part) ==
    \E i \in 0..(Len(text) - Len(part)) :
      \A j \in 1..Len(part) : text[i + j] = part[j]

\* C31 as stated: the list sent to the provider is one system turn
\* followed by the caller's history in unchanged order, the system turn
\* contains the retrieved context, and the caller's list is unmodified.
C31_Original_SystemTurnCarriesContext ==
    (pr_out.called /\ pr_out.ret = "ok") =>
      /\ Len(pr_out.sent) = Len(pr_out.history) + 1
      /\ pr_out.sent[1].role = "system"
      /\ Tail(pr_out.sent) = pr_out.history
      /\ \A i \in 2..Len(pr_out.sent) : pr_out.sent[i].role # "system"
      /\ pr_out.after = pr_out.history
      /\ HasText(pr_out.sent[1].content, pr_in.context)

\* C34 as stated: the history passed to generation holds the turns stored
\* for the session, in their stored order, followed by the new user
\* message.
C34_Original_HistoryHoldsStoredTurns ==
    pr_out.called =>
      pr_out.history = StoredTurns(pr_in.stored)
                         \o <<[role |-> "user", content |-> pr_in.message]>>


(***************************************************************************)
(* Output validation (SpecGate).                                           *)
(***************************************************************************)
\* C32: validate_output applies the moderation check only; a text that
\* moderation does not flag is returned as safe whatever the length,
\* prompt-injection, PII and topic checks would say about it.
C32_OutputOnlyModerated ==
    OutputRun =>
      /\ gate_out.run.evaluated = <<"moderation">>
      /\ gate_out.mod # "flag" => gate_out.run.result = SafetyResult(TRUE, None, <<>>)
      /\ ~gate_out.run.result.is_safe
           => gate_out.run.result.categories # <<>> /\ gate_out.mod = "flag"

\* An output longer than 500 characters that carries an e-mail address,
\* fails the length, PII and topic checks, and is returned as safe.
C32_Witness ==
    /\ OutputRun
    /\ gate_out.mod = "pass"
    /\ TextLen(gate_text) > MAX_INPUT_LENGTH
    /\ InSeq("a@b.com", gate_text)
    /\ {1, 3, 4} \subseteq FailingLocal(gate_text)
    /\ gate_out.run.result.is_safe


(***************************************************************************)
(* SpecTopic: check_on_topic run on character strings.  gate_text holds    *)
(* the characters of the text and gate_out the result; check_on_topic of   *)
(* SpecGate is the same test tabulated over its vocabulary.                *)
(***************************************************************************)
\* Words of the longest text made from TopicWords.
MaxTopicWords == 4

\* ZOO_KEYWORDS, every keyword as its characters.
ZOO_KEYWORDS_chars ==
    { <<"a","n","i","m","a","l">>, <<"z","o","o">>, <<"p","a","r","k">>,
      <<"l","e","e","s","b","u","r","g">>, <<"f","e","e","d">>,
      <<"p","e","t">>, <<"v","i","s","i","t">>,
      <<"h","a","b","i","t","a","t">>, <<"w","i","l","d">>, <<"e","a","t">>,
      <<"s","l","e","e","p">>, <<"p","l","a","y">>, <<"b","a","b","y">>,
      <<"c","u","t","e">>, <<"b","i","g">>, <<"s","m","a","l","l">>,
      <<"h","e","l","l","o">>, <<"h","i">>, <<"h","e","y">>,
      <<"t","h","a","n","k","s">>, <<"h","e","l","p">>, <<"w","h","a","t">>,
      <<"h","o","w">>, <<"w","h","y">>, <<"t","e","l","l">>,
      <<"a","b","o","u","t">>, <<"m","a","m","m","a","l">>,
      <<"b","i","r","d">>, <<"r","e","p","t","i","l","e">>,
      <<"a","m","p","h","i","b","i","a","n">>, <<"i","n","s","e","c","t">>,
      <<"a","r","a","c","h","n","i","d">>, <<"p","r","i","m","a","t","e">>,
      <<"g","o","a","t">>, <<"s","h","e","e","p">>, <<"p","i","g">>,
      <<"d","o","n","k","e","y">>, <<"h","o","r","s","e">>,
      <<"p","o","n","y">>, <<"l","l","a","m","a">>,
      <<"a","l","p","a","c","a">>, <<"c","a","m","e","l">>,
      <<"z","e","b","r","a">>, <<"d","e","e","r">>,
      <<"n","i","l","g","a","i">>, <<"z","e","b","u">>, <<"c","o","w">>,
      <<"c","a","t","t","l","e">>, <<"r","a","b","b","i","t">>,
      <<"b","u","n","n","y">>, <<"c","h","i","n","c","h","i","l","l","a">>,
      <<"h","e","d","g","e","h","o","g">>,
      <<"p","o","r","c","u","p","i","n","e">>, <<"l","e","m","u","r">>,
      <<"m","o","n","k","e","y">>, <<"t","a","m","a","r","i","n">>,
      <<"m","a","r","m","o","s","e","t">>, <<"g","i","b","b","o","n">>,
      <<"s","l","o","t","h">>, <<"w","a","l","l","a","b","y">>,
      <<"k","a","n","g","a","r","o","o">>, <<"s","e","r","v","a","l">>,
      <<"c","a","t">>, <<"d","o","g">>, <<"c","o","a","t","i">>,
      <<"m","e","e","r","k","a","t">>, <<"b","e","a","r">>,
      <<"l","i","o","n">>, <<"t","i","g","e","r">>,
      <<"e","l","e","p","h","a","n","t">>, <<"g","i","r","a","f","f","e">>,
      <<"g","o","r","i","l","l","a">>,
      <<"o","r","a","n","g","u","t","a","n">>,
      <<"p","e","a","c","o","c","k">>, <<"p","e","a","f","o","w","l">>,
      <<"t","u","r","k","e","y">>, <<"c","h","i","c","k","e","n">>,
      <<"d","u","c","k">>, <<"g","o","o","s","e">>, <<"e","m","u">>,
      <<"o","s","t","r","i","c","h">>, <<"c","r","a","n","e">>,
      <<"p","a","r","r","o","t">>, <<"m","a","c","a","w">>,
      <<"c","o","c","k","a","t","o","o">>,
      <<"k","o","o","k","a","b","u","r","r","a">>, <<"r","a","v","e","n">>,
      <<"c","r","o","w">>, <<"h","a","w","k">>, <<"e","a","g","l","e">>,
      <<"o","w","l">>, <<"s","n","a","k","e">>, <<"p","y","t","h","o","n">>,
      <<"b","o","a">>, <<"t","o","r","t","o","i","s","e">>,
      <<"t","u","r","t","l","e">>, <<"l","i","z","a","r","d">>,
      <<"g","e","c","k","o">>, <<"s","k","i","n","k">>, <<"t","e","g","u">>,
      <<"i","g","u","a","n","a">>, <<"c","h","a","m","e","l","e","o","n">>,
      <<"f","r","o","g">>, <<"t","o","a","d">>,
      <<"s","a","l","a","m","a","n","d","e","r">>, <<"n","e","w","t">>,
      <<"s","c","o","r","p","i","o","n">>, <<"s","p","i","d","e","r">>,
      <<"t","a","r","a","n","t","u","l","a">>, <<"b","e","e","t","l","e">>,
      <<"c","o","c","k","r","o","a","c","h">>,
      <<"m","i","l","l","i","p","e","d","e">>, <<"p","a","n","d","a">>,
      <<"k","o","a","l","a">>, <<"p","e","n","g","u","i","n">>,
      <<"d","o","l","p","h","i","n">>, <<"s","h","a","r","k">>,
      <<"o","c","t","o","p","u","s">>,
      <<"j","e","l","l","y","f","i","s","h">> }

\* str.lower() on the characters that occur.
lower(c) ==
    CASE c = "A" -> "a" [] c = "C" -> "c" [] c = "T" -> "t" [] c = "W" -> "w"
      [] OTHER -> c

\* The requests of the off-topic test, the zoo questions of the on-topic
\* test, and every text of up to MaxTopicWords words joined by blanks.
TopicExamples ==
    {
      \* Calculate 2 plus 2 for me
      <<"C","a","l","c","u","l","a","t","e"," ","2"," ","p",
        "l","u","s"," ","2"," ","f","o","r"," ","m","e">>,
      \* Tell me a recipe for pizza
      <<"T","e","l","l"," ","m","e"," ","a"," ","r","e","c",
        "i","p","e"," ","f","o","r"," ","p","i","z","z","a">>,
      \* What do lions eat?
      <<"W","h","a","t"," ","d","o"," ","l","i","o","n","s",
        " ","e","a","t","?">>,
      \* Are there baby animals?
      <<"A","r","e"," ","t","h","e","r","e"," ","b","a","b",
        "y"," ","a","n","i","m","a","l","s","?">> }
TopicTexts ==
    LET words == { <<"T","e","l","l">>, <<"m","e">>,
                   <<"r","e","c","i","p","e">>, <<"p","i","z","z","a">>, <<"l","i","o","n","s">> }
    IN  TopicExamples \cup
        UNION { { Flatten([i \in 1..n |-> IF i = 1 THEN ws[i] ELSE <<" ">> \o ws[i]]) :
                    ws \in [1..n -> words] } : n \in 0..MaxTopicWords }

\* len(text_lower.split())
SplitCount(text) ==
    Cardinality({ i \in DOMAIN text : text[i] # " " /\ (i = 1 \/ text[i - 1] = " ") })

\* check_on_topic: at most 3 tokens pass; a longer text passes when some
\* keyword is a substring of the lowercased text.
check_on_topic_chars(text) ==
    LET text_lower == [i \in DOMAIN text |-> lower(text[i])]
        In(kw) == \E i \in 0..(Len(text_lower) - Len(kw)) :
                    \A j \in 1..Len(kw) : text_lower[i + j] = kw[j]
    IN  IF SplitCount(text_lower) <= 3 THEN SafetyResult(TRUE, None, <<>>)
        ELSE IF \E kw \in ZOO_KEYWORDS_chars : In(kw)
             THEN SafetyResult(TRUE, None, <<>>)
             ELSE SafetyResult(FALSE, ReasonOffTopic, <<"off_topic">>)

InitTopic ==
    /\ gate_text \in TopicTexts
    /\ gate_out = [fn |-> None]
    /\ llm_provider = "unset"
    /\ CachesAtStart
    /\ SvcAtRest
    /\ fallback_question_index = 0
    /\ ReqAtRest
    /\ FeedAtRest
    /\ FollowupsAtRest
    /\ AuxAtRest
    /\ LateAtRest

CheckOnTopic ==
    /\ gate_out.fn = None
    /\ gate_out' = [fn |-> "check_on_topic", result |-> check_on_topic_chars(gate_text)]
    /\ UNCHANGED <<gate_text, llm_provider, cacheVars, svcVars,
                   fallback_question_index, reqVars, pureVars, auxVars, lateVars>>

NextTopic == CheckOnTopic
SpecTopic == InitTopic /\ [][NextTopic]_vars

\* C33 as stated: an input of at most 3 tokens is accepted, a rejection
\* carries the category off_topic, and the requests "Calculate 2 plus 2 for
\* me" and "Tell me a recipe for pizza", which are about no zoo topic, are
\* rejected.
C33_Original_OffTopicRequestsRejected ==
    gate_out.fn = "check_on_topic" =>
      /\ SplitCount(gate_text) <= 3 => gate_out.result.is_safe
      /\ ~gate_out.result.is_safe => gate_out.result.categories = <<"off_topic">>
      /\ (gate_text \in TopicExamples /\ gate_text[1] \in {"C", "T"})
           => ~gate_out.result.is_safe


(***************************************************************************)
(* A caller that stops consuming an event stream (Spec).                   *)
(***************************************************************************)
\* The event generator was closed at one of its yields.
Stopped == pc = "closed"

\* The event after which the caller stopped.
StopEvent == events[Len(events)]

\* record_interaction was called and returned: a call that raised is the
\* last call of the request and is followed by the error event.
InteractionRecorded ==
    /\ InSeq("record_interaction", req_calls)
    /\ ~(req_calls[Len(req_calls)] = "record_interaction" /\ StopEvent.type = "error")

NothingRecorded == ~InteractionRecorded /\ saved = <<>>

\* No audio event occurs twice among the events produced.
NoAudioResent ==
    \A i, j \in DOMAIN AudioEvents :
      AudioEvents[i].index = AudioEvents[j].index => i = j

\* The step that closes the generator produces no event and touches neither
\* the store nor the process-wide state; after it the request only ends.
ClosingStep ==
    /\ (pc # "closed" /\ pc' = "closed") =>
         /\ events' = events
         /\ saved' = saved
         /\ req_calls' = req_calls
         /\ UNCHANGED <<cacheVars, fallback_question_index>>
    /\ pc = "closed" =>
         /\ pc' = "idle"
         /\ UNCHANGED <<cacheVars, fallback_question_index>>

\* C35 as stated: after the caller stopped consuming, after any event,
\* nothing has been recorded for the request.
C35_Original_NothingRecordedAfterAnyEvent ==
    Stopped => NothingRecorded

\* C35, amended: when the caller stops consuming after a text event, an
\* audio event or the done event of a chat stream, no further event is
\* produced, nothing is recorded for the request, no audio event is
\* produced again, and the availability flags and the rotation index stay
\* as they were at that event.  (A voice-out stream has recorded its
\* interaction before its done event.)
C35_StopProducesAndRecordsNothing ==
    /\ []((Stopped /\ (StopEvent.type \in {"text", "audio"}
                         \/ (req.kind = "chat_stream" /\ StopEvent.type = "done")))
            => NothingRecorded)
    /\ [](Stopped => NoAudioResent)
    /\ [][ClosingStep]_vars

\* A voice-out stream closed after an audio event while the generation
\* stream still held fragments.
C35_Witness ==
    /\ Stopped
    /\ req.kind = "tts_stream"
    /\ StopEvent.type = "audio"
    /\ gen.phase \in {"ollama", "openai"}
    /\ gen.left # <<>>
    /\ NothingRecorded


(***************************************************************************)
(* SpecConfig: one DynamicConfig object, the file it polls and the clock.  *)
(* A configuration is named by the version of the file it was read from;   *)
(* version 0 is the built-in default configuration.  Every rewrite of the  *)
(* file gets a modification time later than the one before.                *)
(***************************************************************************)
\* Last reading of the clock.
MaxClock == 8

\* poll_interval, in clock ticks.
PollInterval == 2

\* DynamicConfig._reload_if_changed: nothing is done before the poll
\* interval has elapsed; otherwise the time of the check is kept and a
\* file newer than the last one loaded is parsed.  JSONDecodeError is
\* caught and leaves the configuration as it was; UnicodeDecodeError,
\* raised while reading a file that is not UTF-8, is not in the except
\* clause and leaves the method.
reload_if_changed(c, file, now) ==
    IF now - c.last_check < PollInterval
    THEN [config |-> c.config, last_mtime |-> c.last_mtime,
          last_check |-> c.last_check, raised |-> FALSE]
    ELSE IF file.state = "missing" \/ ~(file.mtime > c.last_mtime)
    THEN [config |-> c.config, last_mtime |-> c.last_mtime,
          last_check |-> now, raised |-> FALSE]
    ELSE IF file.state = "valid"
    THEN [config |-> file.version, last_mtime |-> file.mtime,
          last_check |-> now, raised |-> FALSE]
    ELSE [config |-> c.config, last_mtime |-> c.last_mtime,
          last_check |-> now, raised |-> file.state = "undecodable"]

\* DynamicConfig(): the default configuration, _last_mtime = 0.0,
\* _last_check = 0.0 and the initial load, which did not raise.
InitConfig ==
    /\ cfg_now = PollInterval
    /\ cfg_file \in [state : {"missing", "valid", "invalid"},
                     version : {1}, mtime : {1}]
    /\ LET r == reload_if_changed([config |-> 0, last_mtime |-> 0, last_check |-> 0],
                                  cfg_file, cfg_now)
       IN  cfg = [loaded |-> TRUE, config |-> r.config, last_mtime |-> r.last_mtime,
                  last_check |-> r.last_check,
                  ret |-> [raised |-> r.raised, values |-> -1], calls |-> 0]
    /\ PromptAtRest
    /\ AuxAtRest
    /\ ReqAtRest
    /\ GateAtRest
    /\ SvcAtRest
    /\ FeedAtRest
    /\ FollowupsAtRest
    /\ CachesAtStart
    /\ fallback_question_index = 0
    /\ llm_provider = "unset"

ConfigOthers == <<pr_in, pr_out, gateVars, llm_provider, cacheVars, svcVars,
                  fallback_question_index, reqVars, pureVars, auxVars>>

\* time.time() advances.
ConfigTick ==
    /\ cfg_now < MaxClock
    /\ cfg_now' = cfg_now + 1
    /\ UNCHANGED <<cfg, cfg_file, ConfigOthers>>

\* The file is rewritten: with the next version of the configuration, with
\* text that is no JSON, or with bytes that are no UTF-8.
ConfigRewrite ==
    /\ cfg_now > cfg_file.mtime
    /\ \E state \in {"valid", "invalid", "undecodable"} :
         cfg_file' = [state |-> state,
                      version |-> IF state = "valid" THEN (cfg_file.version % 2) + 1
                                  ELSE cfg_file.version,
                      mtime |-> cfg_now]
    /\ UNCHANGED <<cfg, cfg_now, ConfigOthers>>

\* An accessor (system_prompt, model_name, ...) is read: _get_nested
\* reloads and returns the value of the configuration held.
ConfigAccess ==
    /\ LET r == reload_if_changed(cfg, cfg_file, cfg_now)
       IN  cfg' = [loaded |-> TRUE, config |-> r.config, last_mtime |-> r.last_mtime,
                   last_check |-> r.last_check,
                   ret |-> [raised |-> r.raised, values |-> r.config],
                   calls |-> (cfg.calls + 1) % 2]
    /\ UNCHANGED <<cfg_file, cfg_now, ConfigOthers>>

NextConfig == ConfigTick \/ ConfigRewrite \/ ConfigAccess
SpecConfig == InitConfig /\ [][NextConfig]_vars

\* One accessor call: with a file that is no valid JSON it returns the
\* values of the configuration loaded last and leaves the object's
\* configuration alone; once the poll interval has elapsed it returns the
\* values of a valid file.
AccessorStep ==
    (cfg'.calls # cfg.calls) =>
      /\ cfg_file.state \in {"invalid", "undecodable"} =>
           /\ cfg'.ret = [raised |-> FALSE, values |-> cfg.config]
           /\ cfg'.config = cfg.config
           /\ cfg'.last_mtime = cfg.last_mtime
      /\ (cfg_file.state = "valid" /\ cfg_now - cfg.last_check >= PollInterval) =>
           cfg'.ret = [raised |-> FALSE, values |-> cfg_file.version]

\* C36 as stated: after a rewrite with invalid JSON every accessor keeps
\* returning the values of the last successfully loaded configuration, and
\* a later valid rewrite is loaded by an accessor call made after the poll
\* interval has elapsed.
C36_Original_InvalidFileKeepsConfig ==
    [][AccessorStep]_vars

(***************************************************************************)
(* The shape of what extract_sentences returns (SpecSentences).            *)
(***************************************************************************)
\* A sentence as the audio loop receives it: not empty, no blank at either
\* end, sentence punctuation last.
WellFormedSentence(s) ==
    /\ s # <<>>
    /\ ~IsSpace(s[1])
    /\ ~IsSpace(s[Len(s)])
    /\ IsPunct(s[Len(s)])

\* C37: every sentence extract_sentences has returned is non-empty, has no
\* leading or trailing whitespace and ends with ".", "!" or "?"; the
\* remainder it has returned holds no sentence boundary: extracting from the
\* remainder again yields no sentence and the same remainder.
C37_SentencesWellFormedRemainderStable ==
    /\ \A i \in 1..Len(feed_sentences) : WellFormedSentence(feed_sentences[i])
    /\ extract_sentences(feed_buffer) = [sentences |-> <<>>, remaining |-> feed_buffer]

\* A call has returned a sentence and a remainder that holds punctuation
\* which is no boundary (". .a" gives "." and ".a").
C37_Witness ==
    /\ feed_left = <<>>
    /\ feed_sentences = << <<".">> >>
    /\ feed_buffer = <<".", "a">>

(***************************************************************************)
(* The rotation index and the main text over the calls of SpecFollowups.   *)
(* Every caller of get_fallback_questions asks for 3 questions, as the     *)
(* fallback of extract_followup_questions does.                            *)
(***************************************************************************)
IndexInPool == fallback_question_index \in 0..(FALLBACK_POOL_SIZE - 1)

\* response[:match.start()] of the pattern that yielded the questions.
PartBeforeSection(text) ==
    LET second == PatternSearch(text, 2)
        third == PatternSearch(text, 3)
    IN  IF second.found /\ second.questions # <<>>
        THEN SubSeq(text, 1, second.start - 1)
        ELSE SubSeq(text, 1, third.start - 1) \o <<"Want to">>

\* A call that drew 3 fallback questions moves the index on by 3.
FallbackStep ==
    (fu_out'.called /\ ~fu_out'.extracted) =>
        fallback_question_index' = (fallback_question_index + 3) % FALLBACK_POOL_SIZE

\* C38 as stated: the rotation index stays in 0 .. pool_size-1, a call for
\* 3 fallback questions advances it by 3 modulo the pool size, and an
\* extraction that finds a question leaves it unchanged and returns exactly
\* the part of the response before the matched section as main text.
C38_Original_MainTextIsExactPrefix ==
    /\ [] IndexInPool
    /\ [][/\ FallbackStep
          /\ (fu_out'.called /\ fu_out'.extracted) =>
               /\ fallback_question_index' = fallback_question_index
               /\ fu_out'.main = PartBeforeSection(fu_response')]_vars

\* C38: the rotation index stays in 0 .. pool_size-1; a call for 3 fallback
\* questions advances it by 3 modulo the pool size; an extraction that
\* finds a question leaves the index unchanged and returns as main text the
\* part of the response before the matched section with the whitespace at
\* both of its ends removed.
C38_IndexRotatesMainTextStripped ==
    /\ [] IndexInPool
    /\ [][/\ FallbackStep
          /\ (fu_out'.called /\ fu_out'.extracted) =>
               /\ fallback_question_index' = fallback_question_index
               /\ fu_out'.main = strip(PartBeforeSection(fu_response'))]_vars

\* Questions were extracted from a response whose part before the section
\* ends with a line break, at a time when the next fallback wraps the index.
C38_Witness ==
    /\ fu_out.called /\ fu_out.extracted
    /\ fu_out.main # PartBeforeSection(fu_response)
    /\ fu_prev.called
    /\ fallback_question_index = FALLBACK_POOL_SIZE - 3

(***************************************************************************)
(* Audio of no recognised format on POST /voice/stt (SpecEndpoints).       *)
(***************************************************************************)
\* transcribe was called for the request on bytes of no recognised format,
\* and the local model gave no text: it could not be loaded ("whisper" was
\* not run) or its run raised.
UnrecognisedAudioLocalGone ==
    /\ req.kind = "stt"
    /\ transcript.called
    /\ req.audio = "unknown"
    /\ transcript.ret # "whisper_text"

\* C39: when the local STT provider is unavailable or fails and the audio
\* bytes have no recognised format, STTService.transcribe returns the fixed
\* mock transcription without calling the cloud API and without raising,
\* and POST /voice/stt answers 200 with that text.
C39_UnrecognisedAudioGetsMockText ==
    UnrecognisedAudioLocalGone =>
      /\ transcript.ret = "mock_text"
      /\ \A i \in DOMAIN transcript.trace : transcript.trace[i] # "openai_whisper"
      /\ response = Response(200, <<"mock_text">>, <<>>)

\* The local model was loaded and its run on the unrecognised bytes raised;
\* the request was answered with the mock transcription.
C39_Witness ==
    /\ UnrecognisedAudioLocalGone
    /\ pc = "done"
    /\ transcript.trace = <<"init_whisper", "whisper">>
    /\ response.status = 200

=============================================================================
